---- MODULE Spec2Model ----
(***************************************************************************)
(* Key resolution in vindemitor: the cache pool (core/vaults.py, Vaults)   *)
(* and the broker (core/drm_manager.py, DRMManager.prepare_drm_keys).      *)
(*                                                                         *)
(* Spec        one DRMManager, one Widevine descriptor, a pool of up to    *)
(*             two backends; prepare_drm_keys is called MaxCalls times.    *)
(* SpecVaults  the pool alone, up to three backends; get_key, add_key and  *)
(*             add_keys are applied to it MaxOps times.                    *)
(* SpecExport  Spec with an export sink; SpecConc two calls at once.       *)
(* SpecSelect  TrackSelector.select; SpecDl the download of one title;     *)
(* SpecConfig  config.drm.vaults; SpecUi the DRM callbacks of dl.py;       *)
(* SpecRun     dl.result's loop over the titles.                           *)
(***************************************************************************)
EXTENDS Integers, Sequences, FiniteSets, TLC

(***************************************************************************)
(* Bounds                                                                  *)
(***************************************************************************)
MaxCalls == 2
MaxOps == 1
\* tracks of one kind a title carries; selects applied to one title
MaxTracks == 2
MaxSelects == 2
MaxVaults == 3
MaxTitles == 3

(***************************************************************************)
(* Values                                                                  *)
(***************************************************************************)
\* Python's None where a key (a hex string) is expected.
None == <<>>
\* Python's None where a Vault is expected.
NoVault == "None"
NoKid == "None"

KIDs == {"KID_A", "KID_B"}
\* Hex strings, as sequences of digits: one all-zero key, two real keys that
\* both contain the digit 0.
ZeroKey == <<"0", "0">>
KeyX == <<"a", "0">>
KeyY == <<"0", "b">>
Keys == {ZeroKey, KeyX, KeyY}
KeyOrNone == Keys \cup {None}

VaultNames == <<"B1", "B2", "B3">>
\* What Vault.add_key / Vault.add_keys of a backend do:
\* accept the write, or raise one of the two absorbed exceptions.
VaultModes == {"rw", "PermissionError", "NotImplementedError"}

\* dict[kid, key] values: functions whose domain is a subset of KIDs.
KeyMaps == UNION {[S -> Keys] : S \in SUBSET KIDs}
EmptyMap == [k \in {} |-> None]
\* dict.update(other)
Update(d, other) == [k \in DOMAIN d \cup DOMAIN other |->
                        IF k \in DOMAIN other THEN other[k] ELSE d[k]]

\* str.count("0")
Count0(key) == Cardinality({n \in 1..Len(key) : key[n] = "0"})
\* bool(key) for a key that is None or a string
Truthy(key) == key /= None /\ Len(key) > 0

VARIABLES
    vaults,        \* Vaults.vaults: the backends in configured order
    ret,           \* SpecVaults: the last pool operation and what it returned
    cdm_ok,        \* isinstance(self.cdm, WidevineCdm)
    cdm_only,      \* DRMManager.cdm_only
    vaults_only,   \* DRMManager.vaults_only
    kids,          \* drm.kids of the descriptor
    content_keys,  \* drm.content_keys of the descriptor
    pc,            \* position of the running prepare_drm_keys call
    track_kid,     \* argument of the running call
    idx,           \* position of the per-key loop in drm.kids
    is_track_kid,  \* local of the per-key loop
    from_vaults,   \* local: the snapshot taken before the exchange
    trace,         \* what the running / last call did, in order
    outcome,       \* how the last call ended
    ncalls,        \* calls (SpecVaults: pool operations) started so far
    export,        \* DRMManager.export is configured (a Path, not None)
    keys_file,     \* the export file: whether it exists, its document, writes so far
    track,         \* str(track) of the running call
    workers,       \* SpecConc: the two download workers' calls
    drms,          \* SpecConc: drm.content_keys of the descriptors
    title,         \* SpecSelect: the title: its kind and title.tracks
    criteria,      \* SpecSelect: the TrackSelector's fields
    selected,      \* SpecSelect: the last select: what it was given and returned
    napplied,      \* SpecSelect: selects applied so far
    pool,          \* SpecDl: the ThreadPoolExecutor: its size, its work units, who finished
    main,          \* SpecDl: the thread running dl.result through one title's download
    config,        \* SpecConfig: the [drm] vaults data and config.drm.vaults being built
    ui,            \* SpecUi: drm_trees, the download table and tree_key of one title
    callers,       \* SpecUi: the prepare_drm_keys calls that notify the UI
    run            \* SpecRun: dl.result's loop over the titles

exportVars == <<export, keys_file, track>>
concVars == <<workers, drms>>
selectVars == <<title, criteria, selected, napplied>>
dlVars == <<pool, main, config>>
runVars == <<ui, callers, run>>

vars == <<vaults, ret, cdm_ok, cdm_only, vaults_only, kids, content_keys, pc,
          track_kid, idx, is_track_kid, from_vaults, trace, outcome, ncalls,
          exportVars, concVars, selectVars, dlVars, runVars>>

brokerVars == <<cdm_ok, cdm_only, vaults_only, kids, content_keys, pc,
                track_kid, idx, is_track_kid, from_vaults, trace, outcome, ncalls>>

(***************************************************************************)
(* Key cache backend (Vault): read(key-id) -> key | absent,                *)
(* write(key-id, key) -> ok | PermissionDenied | Unsupported.              *)
(***************************************************************************)
Vault(name, mode, store) == [name |-> name, mode |-> mode, store |-> store]

\* Vault.get_key(kid, service)
Vault_get_key(vault, kid) == vault.store[kid]

\* Vault.add_key(service, kid, key): the backend after the write, what the
\* call returned, the exception it raised.
Vault_add_key(vault, kid, key) ==
    IF vault.mode = "rw"
    THEN [vault |-> [vault EXCEPT !.store[kid] = key], added |-> 1, raised |-> "None"]
    ELSE [vault |-> vault, added |-> 0, raised |-> vault.mode]

(***************************************************************************)
(* Cache pool (Vaults)                                                     *)
(***************************************************************************)
\* An event of a call, one shape for all kinds.
Event(type, kid, key, src, flag) ==
    [type |-> type, kid |-> kid, key |-> key, src |-> src, flag |-> flag]

\* Mutant of IsRealKey: the all-zero test is left out.
IsRealKey_Truthy(key) == Truthy(key)

\* key and key.count("0") != len(key)
IsRealKey(key) == Truthy(key) /\ Count0(key) /= Len(key)

\* Mutant of get_key_from: the loop does not stop at the first real key, the
\* last backend that holds one wins.
RECURSIVE get_key_last(_, _, _)
get_key_last(vs, kid, j) ==
    IF j > Len(vs)
    THEN [key |-> None, vault |-> NoVault, queried |-> Len(vs)]
    ELSE LET key == Vault_get_key(vs[j], kid)
             rest == get_key_last(vs, kid, j + 1)
         IN  IF rest.key /= None THEN rest
             ELSE IF Truthy(key) /\ Count0(key) /= Len(key)
                  THEN [key |-> key, vault |-> vs[j].name, queried |-> Len(vs)]
                  ELSE rest

\* Vaults.get_key from backend j on: the key, the backend that supplied it,
\* and how many backends were queried.
RECURSIVE get_key_from(_, _, _)
get_key_from(vs, kid, j) ==
    IF j > Len(vs)
    THEN [key |-> None, vault |-> NoVault, queried |-> Len(vs)]
    ELSE LET key == Vault_get_key(vs[j], kid)
         IN  IF IsRealKey(key)
             THEN [key |-> key, vault |-> vs[j].name, queried |-> j]
             ELSE get_key_from(vs, kid, j + 1)

Vaults_get_key(vs, kid) == get_key_from(vs, kid, 1)

\* Mutant of Absorbed: only PermissionError is caught.
Absorbed_PermissionOnly(exc) == exc = "PermissionError"

\* except (PermissionError, NotImplementedError)
Absorbed(exc) == exc \in {"PermissionError", "NotImplementedError"}

\* Vaults.add_key from backend j on: the pool after the writes, the count,
\* the write attempts in order, and the exception that left the call.
RECURSIVE add_key_from(_, _, _, _, _, _, _)
add_key_from(vs, kid, key, excluding, j, success, writes) ==
    IF j > Len(vs)
    THEN [vaults |-> vs, success |-> success, writes |-> writes, raised |-> "None"]
    ELSE IF vs[j].name /= excluding
         THEN LET w == Vault_add_key(vs[j], kid, key)
                  ev == Event("write", kid, key, vs[j].name, w.raised = "None")
              IN  IF w.raised = "None"
                  THEN add_key_from([vs EXCEPT ![j] = w.vault], kid, key, excluding,
                                    j + 1, success + w.added, Append(writes, ev))
                  ELSE IF Absorbed(w.raised)
                       THEN add_key_from(vs, kid, key, excluding,
                                         j + 1, success, Append(writes, ev))
                       ELSE [vaults |-> vs, success |-> success,
                             writes |-> Append(writes, ev), raised |-> w.raised]
         ELSE add_key_from(vs, kid, key, excluding, j + 1, success, writes)

Vaults_add_key(vs, kid, key, excluding) ==
    add_key_from(vs, kid, key, excluding, 1, 0, <<>>)

\* The attributes Vaults.__init__ sets on the pool.
VaultsAttrs == {"default_service", "vaults"}

\* Vault.add_keys(service, kid_keys): one bulk write to a backend.
Vault_add_keys(vault, kid_keys) ==
    IF vault.mode = "rw"
    THEN [vault |-> [vault EXCEPT !.store = [k \in KIDs |->
                        IF k \in DOMAIN kid_keys THEN kid_keys[k] ELSE @[k]]],
          added |-> Cardinality(DOMAIN kid_keys), raised |-> "None"]
    ELSE [vault |-> vault, added |-> 0, raised |-> vault.mode]

\* Vaults.add_keys from backend j on. The argument list of the backend call
\* reads self.service, which is evaluated before the backend is entered.
RECURSIVE add_keys_from(_, _, _, _, _)
add_keys_from(vs, kid_keys, j, success, writes) ==
    IF j > Len(vs)
    THEN [vaults |-> vs, success |-> success, writes |-> writes, raised |-> "None"]
    ELSE IF "service" \notin VaultsAttrs
         THEN [vaults |-> vs, success |-> success, writes |-> writes,
               raised |-> "AttributeError"]
         ELSE LET w == Vault_add_keys(vs[j], kid_keys)
                  ev == Event("bulk_write", NoKid, None, vs[j].name, w.raised = "None")
              IN  IF w.raised = "None"
                  THEN add_keys_from([vs EXCEPT ![j] = w.vault], kid_keys,
                                     j + 1, success + w.added, Append(writes, ev))
                  ELSE IF Absorbed(w.raised)
                       THEN add_keys_from(vs, kid_keys, j + 1, success, Append(writes, ev))
                       ELSE [vaults |-> vs, success |-> success,
                             writes |-> Append(writes, ev), raised |-> w.raised]

Vaults_add_keys(vs, kid_keys) == add_keys_from(vs, kid_keys, 1, 0, <<>>)

(***************************************************************************)
(* SpecVaults: the pool's operations applied to a pool of up to three      *)
(* backends.                                                               *)
(***************************************************************************)
\* The pool operation last applied: its arguments, the pool before it, and
\* what it returned.
Ret(op, kid, key, excluding, kid_keys, before, r) ==
    [op |-> op, kid |-> kid, key |-> key, excluding |-> excluding,
     kid_keys |-> kid_keys, before |-> before,
     key_out |-> r.key_out, vault |-> r.vault, queried |-> r.queried,
     success |-> r.success, writes |-> r.writes, raised |-> r.raised]

NoRet == Ret("none", NoKid, None, NoVault, EmptyMap, <<>>,
             [key_out |-> None, vault |-> NoVault, queried |-> 0,
              success |-> 0, writes |-> <<>>, raised |-> "None"])

\* A backend with nothing stored for KID_B.
PoolStores == {s \in [KIDs -> KeyOrNone] : s["KID_B"] = None}
\* The pools config.drm.vaults can hold: n backends with distinct names.
Pools(n, stores) ==
    {vs \in [1..n -> [name : {VaultNames[j] : j \in 1..n}, mode : VaultModes, store : stores]] :
        \A j \in 1..n : vs[j].name = VaultNames[j]}

\* The argument maps of the standalone add_keys.
BulkMaps == {EmptyMap, [k \in {"KID_A"} |-> KeyX], [k \in KIDs |-> IF k = "KID_A" THEN KeyX ELSE KeyY]}

\* str(track) of the tracks a title carries, str(self.title), and another
\* title the export document can already hold.
TrackIds == {"T1", "T2"}
ThisTitle == "Title"
OtherTitle == "Other"
\* k.hex of a key-id
Hex(kid) == IF kid = "KID_A" THEN "0a" ELSE "0b"

\* The export file, keys_file.doc being the document jsonpickle reads from
\* its text: {title: {track: {kid hex: key}}}.
NoFile == [exists |-> FALSE, doc |-> EmptyMap, writes |-> 0]
ExportOff == export = FALSE /\ keys_file = NoFile /\ track = "T1"
ConcIdle == workers = <<>> /\ drms = <<>>
SelectIdle == title = <<>> /\ criteria = <<>> /\ selected = <<>> /\ napplied = 0
DlIdle == pool = <<>> /\ main = <<>> /\ config = <<>>
RunIdle == ui = <<>> /\ callers = <<>> /\ run = <<>>

BrokerIdle ==
    /\ cdm_ok = TRUE /\ cdm_only = FALSE /\ vaults_only = FALSE
    /\ kids = <<>> /\ content_keys = EmptyMap
    /\ pc = "idle" /\ track_kid = NoKid /\ idx = 0 /\ is_track_kid = FALSE
    /\ from_vaults = EmptyMap /\ outcome = "none" /\ ncalls = 0

InitVaults ==
    /\ \E n \in 0..3 : vaults \in Pools(n, PoolStores)
    /\ ret = NoRet
    /\ trace = <<>>
    /\ BrokerIdle
    /\ ExportOff /\ ConcIdle /\ SelectIdle /\ DlIdle /\ RunIdle

\* key, vault = vaults.get_key(kid)
GetKeyOp(kid) ==
    /\ ncalls < MaxOps
    /\ ncalls' = ncalls + 1
    /\ LET r == Vaults_get_key(vaults, kid)
       IN  ret' = Ret("get_key", kid, None, NoVault, EmptyMap, vaults,
                      [key_out |-> r.key, vault |-> r.vault, queried |-> r.queried,
                       success |-> 0, writes |-> <<>>, raised |-> "None"])
    /\ UNCHANGED <<vaults, cdm_ok, cdm_only, vaults_only, kids, content_keys, pc,
                   track_kid, idx, is_track_kid, from_vaults, trace, outcome>>
    /\ UNCHANGED <<exportVars, concVars, selectVars, dlVars, runVars>>

\* n = vaults.add_key(kid, key, excluding=excluding)
AddKeyOp(kid, key, excluding) ==
    /\ ncalls < MaxOps
    /\ ncalls' = ncalls + 1
    /\ LET r == Vaults_add_key(vaults, kid, key, excluding)
       IN  /\ vaults' = r.vaults
           /\ ret' = Ret("add_key", kid, key, excluding, EmptyMap, vaults,
                         [key_out |-> None, vault |-> NoVault, queried |-> 0,
                          success |-> r.success, writes |-> r.writes, raised |-> r.raised])
    /\ UNCHANGED <<cdm_ok, cdm_only, vaults_only, kids, content_keys, pc,
                   track_kid, idx, is_track_kid, from_vaults, trace, outcome>>
    /\ UNCHANGED <<exportVars, concVars, selectVars, dlVars, runVars>>

\* n = vaults.add_keys(kid_keys)
AddKeysOp(kid_keys) ==
    /\ ncalls < MaxOps
    /\ ncalls' = ncalls + 1
    /\ LET r == Vaults_add_keys(vaults, kid_keys)
       IN  /\ vaults' = r.vaults
           /\ ret' = Ret("add_keys", NoKid, None, NoVault, kid_keys, vaults,
                         [key_out |-> None, vault |-> NoVault, queried |-> 0,
                          success |-> r.success, writes |-> r.writes, raised |-> r.raised])
    /\ UNCHANGED <<cdm_ok, cdm_only, vaults_only, kids, content_keys, pc,
                   track_kid, idx, is_track_kid, from_vaults, trace, outcome>>
    /\ UNCHANGED <<exportVars, concVars, selectVars, dlVars, runVars>>

NextVaults ==
    \/ \E kid \in KIDs : GetKeyOp(kid)
    \/ \E kid \in KIDs, key \in Keys, excluding \in {NoVault} \cup {VaultNames[j] : j \in 1..3} :
          AddKeyOp(kid, key, excluding)
    \/ \E kid_keys \in BulkMaps : AddKeysOp(kid_keys)

SpecVaults == InitVaults /\ [][NextVaults]_vars

(***************************************************************************)
(* Spec: DRMManager.prepare_drm_keys on one Widevine descriptor.           *)
(***************************************************************************)
\* Mutant of ModeFlags: vaults_only is set whenever the option is given.
ModeFlags_Both(option) ==
    [cdm_only |-> (option = "True"), vaults_only |-> (option /= "None")]

\* dl.result: the --cdm-only/--vaults-only option (None when not given)
\* becomes the two flags handed to DRMManager.
ModeFlags(option) ==
    IF option = "None"
    THEN [cdm_only |-> FALSE, vaults_only |-> FALSE]
    ELSE [cdm_only |-> (option = "True"), vaults_only |-> ~(option = "True")]

\* drm.kids of the descriptors a track can carry.
Descriptors == {<<"KID_A">>, <<"KID_A", "KID_B">>}

\* What drm.get_content_keys can raise.
ExchangeErrors == {"EmptyLicense", "CEKNotFound", "Exception"}

\* Mutant of ExchangeErrorMsg: every exception is wrapped.
ExchangeErrorMsg_Wrapped(e) == "An exception occurred"

\* The message handed to on_error when the exchange raised e.
ExchangeErrorMsg(e) ==
    IF e \in {"EmptyLicense", "CEKNotFound"} THEN "str(e)" ELSE "An exception occurred"

\* What a backend of the broker's pool holds when the run starts.
BrokerStores == {s \in [KIDs -> KeyOrNone] : s["KID_B"] \in {None, KeyY}}

Init ==
    /\ \E n \in 0..2 : vaults \in Pools(n, BrokerStores)
    /\ ret = NoRet
    /\ cdm_ok \in BOOLEAN
    /\ \E option \in {"None", "True", "False"} :
          /\ cdm_only = ModeFlags(option).cdm_only
          /\ vaults_only = ModeFlags(option).vaults_only
    /\ kids \in Descriptors
    /\ content_keys = EmptyMap
    /\ pc = "idle" /\ track_kid = NoKid /\ idx = 0 /\ is_track_kid = FALSE
    /\ from_vaults = EmptyMap /\ trace = <<>> /\ outcome = "none" /\ ncalls = 0
    /\ ExportOff /\ ConcIdle /\ SelectIdle /\ DlIdle /\ RunIdle

\* The call ends: it returns or an exception leaves it.
End(how) ==
    /\ pc' = "idle"
    /\ outcome' = how

\* Mutant of Announce: the announcement is left out.
Announce_Nothing == <<>>

\* self.on_pssh_init("Widevine", drm.pssh.dumps())
Announce == <<Event("pssh", NoKid, None, "Widevine", TRUE)>>

\* prepare_drm_keys(track, track_kid) up to the PSSH announcement.
\* drm_kind: what the track's drm list / custom_drm resolve to. Which track
\* it is shows only in the export document.
Begin(tk, drm_kind) ==
    /\ pc = "idle"
    /\ ncalls < MaxCalls
    /\ ncalls' = ncalls + 1
    /\ track_kid' = tk
    /\ track' \in (IF export THEN TrackIds ELSE {track})
    /\ idx' = 1
    /\ is_track_kid' = FALSE
    /\ from_vaults' = EmptyMap
    /\ IF drm_kind /= "Widevine"
       THEN /\ trace' = <<>>
            /\ End("return None")
       ELSE IF ~cdm_ok
            THEN /\ trace' = <<>>
                 /\ End("ValueError")
            ELSE /\ trace' = Announce
                 /\ pc' = "loop"
                 /\ outcome' = "running"
    /\ UNCHANGED <<vaults, ret, cdm_ok, cdm_only, vaults_only, kids, content_keys>>
    /\ UNCHANGED <<export, keys_file, concVars, selectVars, dlVars, runVars>>

\* Mutant of Resolved: no key-id counts as resolved.
Resolved_Never(kid, keys) == FALSE

\* if kid in drm.content_keys:
Resolved(kid, keys) == kid \in DOMAIN keys

\* for kid in drm.kids: if kid in drm.content_keys: continue
Skip ==
    /\ pc = "loop"
    /\ idx <= Len(kids)
    /\ Resolved(kids[idx], content_keys)
    /\ idx' = idx + 1
    /\ UNCHANGED <<vaults, ret, cdm_ok, cdm_only, vaults_only, kids, content_keys, pc,
                   track_kid, is_track_kid, from_vaults, trace, outcome, ncalls>>
    /\ UNCHANGED <<exportVars, concVars, selectVars, dlVars, runVars>>

\* Mutant of LookupAllowed: the pool is read in every mode.
LookupAllowed_Always == TRUE

\* if not self.cdm_only:
LookupAllowed == ~cdm_only

\* if content_key:
CacheHit(content_key) == Truthy(content_key)

\* Mutant of MissIsFatal: the vaults-only branch is missing.
MissIsFatal_Never == FALSE

\* elif self.vaults_only:
MissIsFatal == vaults_only

\* Mutant of WarmCache: the source backend is not excluded.
WarmCache_NoExclusion(vs, kid, content_key, vault_used) == Vaults_add_key(vs, kid, content_key, NoVault)

\* self.vaults.add_key(kid, content_key, excluding=vault_used)
WarmCache(vs, kid, content_key, vault_used) == Vaults_add_key(vs, kid, content_key, vault_used)

\* if kid not in drm.content_keys and not self.vaults_only:
ExchangeNeeded(kid, keys) == kid \notin DOMAIN keys /\ ~vaults_only

\* One pass of the loop body for an unresolved kid, up to the exchange.
PerKey ==
    /\ pc = "loop"
    /\ idx <= Len(kids)
    /\ ~Resolved(kids[idx], content_keys)
    /\ LET kid == kids[idx]
           itk == (kid = track_kid)
           r == Vaults_get_key(vaults, kid)
           looked == Append(trace, Event("get_key", kid, None, NoVault, TRUE))
       IN  /\ is_track_kid' = itk
           /\ IF LookupAllowed
              THEN IF CacheHit(r.key)
                   THEN LET found == Append(looked, Event("key_found", kid, r.key, r.vault, itk))
                            w == WarmCache(vaults, kid, r.key, r.vault)
                            keys == Update(content_keys, [k \in {kid} |-> r.key])
                        IN  /\ content_keys' = keys
                            /\ vaults' = w.vaults
                            /\ trace' = found \o w.writes
                            /\ IF w.raised /= "None"
                               THEN End(w.raised) /\ idx' = idx
                               ELSE IF ExchangeNeeded(kid, keys)
                                    THEN pc' = "exchange" /\ UNCHANGED <<idx, outcome>>
                                    ELSE idx' = idx + 1 /\ UNCHANGED <<pc, outcome>>
                   ELSE IF MissIsFatal
                        THEN /\ trace' = Append(looked, Event("error", kid, None, "No Vault has a Key", TRUE))
                             /\ End("CEKNotFound")
                             /\ UNCHANGED <<vaults, content_keys, idx>>
                        ELSE /\ trace' = looked
                             /\ IF ExchangeNeeded(kid, content_keys)
                                THEN pc' = "exchange" /\ idx' = idx
                                ELSE pc' = pc /\ idx' = idx + 1
                             /\ UNCHANGED <<vaults, content_keys, outcome>>
              ELSE /\ trace' = trace
                   /\ IF ExchangeNeeded(kid, content_keys)
                      THEN pc' = "exchange" /\ idx' = idx
                      ELSE pc' = pc /\ idx' = idx + 1
                   /\ UNCHANGED <<vaults, content_keys, outcome>>
    /\ UNCHANGED <<ret, cdm_ok, cdm_only, vaults_only, kids, track_kid, from_vaults, ncalls>>
    /\ UNCHANGED <<exportVars, concVars, selectVars, dlVars, runVars>>

\* from_vaults = drm.content_keys.copy(); drm.get_content_keys(...) returns
\* with the descriptor's key map set to what the device supplied.
ExchangeReturns(device_keys) ==
    /\ pc = "exchange"
    /\ from_vaults' = content_keys
    /\ content_keys' = device_keys
    /\ trace' = Append(trace, Event("exchange", kids[idx], None, "CDM", TRUE))
    /\ pc' = "post_exchange"
    /\ UNCHANGED <<vaults, ret, cdm_ok, cdm_only, vaults_only, kids,
                   track_kid, idx, is_track_kid, outcome, ncalls>>
    /\ UNCHANGED <<exportVars, concVars, selectVars, dlVars, runVars>>

\* drm.get_content_keys(...) raises: on_error, then the exception leaves.
ExchangeRaises(e) ==
    /\ pc = "exchange"
    /\ from_vaults' = content_keys
    /\ trace' = trace \o <<Event("exchange", kids[idx], None, "CDM", FALSE),
                           Event("error", kids[idx], None, ExchangeErrorMsg(e), TRUE)>>
    /\ End(e)
    /\ UNCHANGED <<vaults, ret, cdm_ok, cdm_only, vaults_only, kids, content_keys,
                   track_kid, idx, is_track_kid, ncalls>>
    /\ UNCHANGED <<exportVars, concVars, selectVars, dlVars, runVars>>

\* The items of a key map in a fixed order.
RECURSIVE Items(_, _)
Items(d, ks) ==
    IF ks = <<>> THEN <<>>
    ELSE IF Head(ks) \in DOMAIN d
         THEN <<[kid |-> Head(ks), key |-> d[Head(ks)]]>> \o Items(d, Tail(ks))
         ELSE Items(d, Tail(ks))

KidOrder == <<"KID_A", "KID_B">>

\* on_key_found for every item of drm.content_keys, "from CDM"
CdmKeyEvents(d, itk) ==
    [n \in 1..Len(Items(d, KidOrder)) |->
        Event("key_found", Items(d, KidOrder)[n].kid, Items(d, KidOrder)[n].key, "CDM", itk)]

\* {k: v for k, v in drm.content_keys.items() if v and v.count("0") != len(v)}
KeysToCache(d) == [k \in {k \in DOMAIN d : Truthy(d[k]) /\ Count0(d[k]) /= Len(d[k])} |-> d[k]]

\* Mutant of RestoreSnapshot: the device's values win over the snapshot.
RestoreSnapshot_DeviceWins(device_keys, snapshot) == Update(snapshot, device_keys)

\* drm.content_keys.update(from_vaults)
RestoreSnapshot(device_keys, snapshot) == Update(device_keys, snapshot)

\* Mutant of AfterExchange: no break, the loop goes on with the next kid.
AfterExchange_NoBreak(i) == [pc |-> "loop", idx |-> i + 1]

\* break: where the call goes on after the bulk write
AfterExchange(i) == [pc |-> "after_loop", idx |-> i]

\* After the exchange: notifications, restore of the snapshot, bulk write, break.
PostExchange ==
    /\ pc = "post_exchange"
    /\ LET merged == RestoreSnapshot(content_keys, from_vaults)
           w == Vaults_add_keys(vaults, KeysToCache(merged))
       IN  /\ content_keys' = merged
           /\ vaults' = w.vaults
           /\ trace' = (trace \o CdmKeyEvents(content_keys, is_track_kid))
                          \o <<Event("add_keys", NoKid, None, NoVault, w.raised = "None")>>
                          \o w.writes
           /\ IF w.raised /= "None"
              THEN End(w.raised) /\ idx' = idx
              ELSE /\ pc' = AfterExchange(idx).pc
                   /\ idx' = AfterExchange(idx).idx
                   /\ UNCHANGED outcome
    /\ UNCHANGED <<ret, cdm_ok, cdm_only, vaults_only, kids,
                   track_kid, is_track_kid, from_vaults, ncalls>>
    /\ UNCHANGED <<exportVars, concVars, selectVars, dlVars, runVars>>

\* Mutant of TrackKidMissing: the check after the loop is missing.
TrackKidMissing_Never(tk, keys) == FALSE

\* if track_kid and track_kid not in drm.content_keys:
TrackKidMissing(tk, keys) == tk /= NoKid /\ tk \notin DOMAIN keys

\* if self.export and drm.content_keys:
ExportWanted(sink, keys) == sink /\ keys /= EmptyMap

\* jsonpickle.loads(self.export.read_text()) if self.export.is_file() else {}
ReadExport(file) == IF file.exists THEN file.doc ELSE EmptyMap

\* {k.hex: v for k, v in drm.content_keys.items()}
HexKeys(keys) ==
    [h \in {Hex(k) : k \in DOMAIN keys} |-> keys[CHOOSE k \in DOMAIN keys : Hex(k) = h]]

\* dict.setdefault(k, default), as the dictionary it leaves
SetDefault(d, k, default) == IF k \in DOMAIN d THEN d ELSE Update(d, [x \in {k} |-> default])

\* Mutant of MergeExport: the document is replaced by the call's entry.
MergeExport_Overwrite(keys, title_key, track_key, ck) ==
    [t \in {title_key} |-> [r \in {track_key} |-> HexKeys(ck)]]

\* keys.setdefault(title_key, {}).setdefault(track_key, {}).update({...})
MergeExport(keys, title_key, track_key, ck) ==
    LET a == SetDefault(keys, title_key, EmptyMap)
        b == SetDefault(a[title_key], track_key, EmptyMap)
    IN  [a EXCEPT ![title_key] = [b EXCEPT ![track_key] = Update(b[track_key], HexKeys(ck))]]

\* self.export.write_text(jsonpickle.dumps(keys, indent=4))
WriteExport(file, keys) == [exists |-> TRUE, doc |-> keys, writes |-> file.writes + 1]

\* After the loop (exhausted or left by break): the check of track_kid, the
\* export of the key map when a sink is configured, the return.
AfterLoop ==
    /\ \/ pc = "after_loop"
       \/ pc = "loop" /\ idx > Len(kids)
    /\ IF TrackKidMissing(track_kid, content_keys)
       THEN /\ trace' = Append(trace, Event("error", track_kid, None, "No Content Key", TRUE))
            /\ End("CEKNotFound")
            /\ UNCHANGED keys_file
       ELSE /\ trace' = trace
            /\ keys_file' = IF ExportWanted(export, content_keys)
                             THEN WriteExport(keys_file,
                                     MergeExport(ReadExport(keys_file), ThisTitle, track, content_keys))
                             ELSE keys_file
            /\ End("return drm")
    /\ UNCHANGED <<vaults, ret, cdm_ok, cdm_only, vaults_only, kids, content_keys,
                   track_kid, idx, is_track_kid, from_vaults, ncalls>>
    /\ UNCHANGED <<export, track, concVars, selectVars, dlVars, runVars>>

Next ==
    \/ \E tk \in KIDs \cup {NoKid}, drm_kind \in {"Widevine", "ClearKey", "None"} : Begin(tk, drm_kind)
    \/ Skip
    \/ PerKey
    \/ \E device_keys \in KeyMaps : ExchangeReturns(device_keys)
    \/ \E e \in ExchangeErrors : ExchangeRaises(e)
    \/ PostExchange
    \/ AfterLoop

Spec == Init /\ [][Next]_vars

(***************************************************************************)
(* SpecExport: the same calls with an export sink configured.              *)
(***************************************************************************)
\* Documents the export file can hold when the run starts: nothing, an entry
\* of another title, of another track, of both tracks of this title.
ExportDocs ==
    { EmptyMap,
      [t \in {OtherTitle} |-> [r \in {"T1"} |-> [h \in {"0a"} |-> KeyY]]],
      [t \in {ThisTitle} |-> [r \in {"T2"} |-> [h \in {"0a"} |-> KeyY]]],
      [t \in {ThisTitle, OtherTitle} |-> [r \in TrackIds |-> [h \in {"0b"} |-> KeyX]]] }

ExportFiles == {NoFile} \cup {[exists |-> TRUE, doc |-> d, writes |-> 0] : d \in ExportDocs}

InitExport ==
    /\ \E n \in 0..1 : vaults \in Pools(n, BrokerStores)
    /\ ret = NoRet
    /\ cdm_ok = TRUE
    /\ \E option \in {"None", "True", "False"} :
          /\ cdm_only = ModeFlags(option).cdm_only
          /\ vaults_only = ModeFlags(option).vaults_only
    /\ kids \in Descriptors
    /\ content_keys = EmptyMap
    /\ pc = "idle" /\ track_kid = NoKid /\ idx = 0 /\ is_track_kid = FALSE
    /\ from_vaults = EmptyMap /\ trace = <<>> /\ outcome = "none" /\ ncalls = 0
    /\ export = TRUE /\ keys_file \in ExportFiles /\ track = "T1"
    /\ ConcIdle /\ SelectIdle /\ DlIdle /\ RunIdle

SpecExport == InitExport /\ [][Next]_vars

(***************************************************************************)
(* SpecConc: two download workers of one ThreadPoolExecutor run            *)
(* prepare_drm_keys on the same DRMManager (same pool, same export sink),  *)
(* each for its own track. A step of a worker is a stretch of the call     *)
(* between two places where the interpreter can switch threads (pool and   *)
(* file I/O, the device exchange).                                         *)
(***************************************************************************)
Workers == {1, 2}

\* What the licence of a descriptor makes the device supply.
Licences == {[k \in {"KID_A"} |-> KeyX], [k \in {"KID_B"} |-> KeyY],
             [k \in KIDs |-> IF k = "KID_A" THEN KeyX ELSE KeyY]}

\* A worker's call before it starts: its track, the track's descriptor, its
\* track_kid.
Submitted(tr, d, tk) ==
    [pc |-> "idle", idx |-> 0, track_kid |-> tk, from_vaults |-> EmptyMap,
     outcome |-> "none", track |-> tr, drm |-> d, keys |-> EmptyMap,
     seen |-> {}, exchanges |-> 0]

InitConc ==
    /\ \E n \in 0..1 : vaults \in Pools(n, BrokerStores)
    /\ ret = NoRet /\ trace = <<>>
    /\ cdm_ok = TRUE
    /\ cdm_only = ModeFlags("None").cdm_only /\ vaults_only = ModeFlags("None").vaults_only
    /\ kids \in Descriptors
    /\ content_keys = EmptyMap
    /\ pc = "idle" /\ track_kid = NoKid /\ idx = 0 /\ is_track_kid = FALSE
    /\ from_vaults = EmptyMap /\ outcome = "none" /\ ncalls = 0
    /\ export = TRUE /\ keys_file = NoFile /\ track = "T1"
    /\ \E d \in 1..2, tk1, tk2 \in {NoKid, "KID_A"} :
          workers = [w \in Workers |-> IF w = 1 THEN Submitted("T1", 1, tk1)
                                                ELSE Submitted("T2", d, tk2)]
    /\ \E l1, l2 \in Licences :
          drms = [d \in 1..2 |-> [content_keys |-> EmptyMap,
                                  licence |-> IF d = 1 THEN l1 ELSE l2]]
    /\ SelectIdle /\ DlIdle /\ RunIdle

concFrame == <<ret, cdm_ok, cdm_only, vaults_only, kids, content_keys, pc, track_kid, idx,
               is_track_kid, from_vaults, trace, outcome, ncalls, export, track, selectVars,
               dlVars, runVars>>

\* The call of worker w ends.
WEnd(w, how) == [workers[w] EXCEPT !.pc = "done", !.outcome = how]

\* pool.submit(track.download, drm_manager=drm_manager, ...): the worker's
\* call starts and announces its PSSH.
WBegin(w) ==
    /\ workers[w].pc = "idle"
    /\ workers' = [workers EXCEPT ![w] = [@ EXCEPT !.pc = "loop", !.idx = 1, !.outcome = "running"]]
    /\ UNCHANGED <<vaults, drms, keys_file, concFrame>>

\* One pass of the loop body of worker w: continue, cache hit, fatal miss,
\* or the snapshot that precedes the exchange.
WPerKey(w) ==
    LET me == workers[w]
        ck == drms[me.drm].content_keys
    IN  /\ me.pc = "loop"
        /\ me.idx <= Len(kids)
        /\ LET kid == kids[me.idx]
               r == Vaults_get_key(vaults, kid)
           IN  IF kid \in DOMAIN ck
               THEN /\ workers' = [workers EXCEPT ![w] =
                                     [me EXCEPT !.idx = me.idx + 1, !.seen = me.seen \cup {kid}]]
                    /\ UNCHANGED <<vaults, drms>>
               ELSE IF LookupAllowed /\ CacheHit(r.key)
               THEN LET c == WarmCache(vaults, kid, r.key, r.vault)
                    IN  /\ drms' = [drms EXCEPT ![me.drm].content_keys =
                                       Update(ck, [k \in {kid} |-> r.key])]
                        /\ vaults' = c.vaults
                        /\ workers' = [workers EXCEPT ![w] =
                                         IF c.raised /= "None"
                                         THEN WEnd(w, c.raised)
                                         ELSE [me EXCEPT !.idx = me.idx + 1,
                                                         !.seen = me.seen \cup {kid}]]
               ELSE IF LookupAllowed /\ MissIsFatal
               THEN /\ workers' = [workers EXCEPT ![w] = WEnd(w, "CEKNotFound")]
                    /\ UNCHANGED <<vaults, drms>>
               ELSE /\ workers' = [workers EXCEPT ![w] =
                                     IF ExchangeNeeded(kid, ck)
                                     THEN [me EXCEPT !.pc = "exchange", !.from_vaults = ck]
                                     ELSE [me EXCEPT !.idx = me.idx + 1]]
                    /\ UNCHANGED <<vaults, drms>>
        /\ UNCHANGED <<keys_file, concFrame>>

\* drm.get_content_keys(...) of worker w returns: the descriptor's key map
\* is what the device supplied.
WExchangeReturns(w) ==
    LET me == workers[w]
    IN  /\ me.pc = "exchange"
        /\ drms' = [drms EXCEPT ![me.drm].content_keys = drms[me.drm].licence]
        /\ workers' = [workers EXCEPT ![w] =
                         [me EXCEPT !.pc = "post_exchange", !.exchanges = me.exchanges + 1,
                                    !.seen = me.seen \cup DOMAIN drms[me.drm].licence]]
        /\ UNCHANGED <<vaults, keys_file, concFrame>>

\* Worker w after its exchange: restore of the snapshot, bulk write, break.
WPostExchange(w) ==
    LET me == workers[w]
        merged == RestoreSnapshot(drms[me.drm].content_keys, me.from_vaults)
        c == Vaults_add_keys(vaults, KeysToCache(merged))
    IN  /\ me.pc = "post_exchange"
        /\ drms' = [drms EXCEPT ![me.drm].content_keys = merged]
        /\ vaults' = c.vaults
        /\ workers' = [workers EXCEPT ![w] =
                         IF c.raised /= "None"
                         THEN WEnd(w, c.raised)
                         ELSE [me EXCEPT !.pc = AfterExchange(me.idx).pc,
                                         !.idx = AfterExchange(me.idx).idx]]
        /\ UNCHANGED <<keys_file, concFrame>>

\* Worker w after its loop: the check of track_kid and, on the way to the
\* return, the read of the export file and the merge into what was read.
WAfterLoop(w) ==
    LET me == workers[w]
        ck == drms[me.drm].content_keys
    IN  /\ \/ me.pc = "after_loop"
           \/ me.pc = "loop" /\ me.idx > Len(kids)
        /\ workers' = [workers EXCEPT ![w] =
                         IF TrackKidMissing(me.track_kid, ck)
                         THEN WEnd(w, "CEKNotFound")
                         ELSE IF ExportWanted(export, ck)
                         THEN [me EXCEPT !.pc = "export_write",
                                         !.keys = MergeExport(ReadExport(keys_file), ThisTitle, me.track, ck)]
                         ELSE WEnd(w, "return drm")]
        /\ UNCHANGED <<vaults, drms, keys_file, concFrame>>

\* self.export.write_text(...) of worker w, then return drm
WExportWrite(w) ==
    /\ workers[w].pc = "export_write"
    /\ keys_file' = WriteExport(keys_file, workers[w].keys)
    /\ workers' = [workers EXCEPT ![w] = WEnd(w, "return drm")]
    /\ UNCHANGED <<vaults, drms, concFrame>>

NextConc ==
    \E w \in Workers :
        \/ WBegin(w)
        \/ WPerKey(w)
        \/ WExchangeReturns(w)
        \/ WPostExchange(w)
        \/ WAfterLoop(w)
        \/ WExportWrite(w)

SpecConc == InitConc /\ [][NextConc]_vars

(***************************************************************************)
(* SpecSelect: TrackSelector.select on a title, and dl.result's            *)
(* title.tracks = self.track_selector.select(title).                       *)
(* Absent numbers (bitrate, height, width, channels: None) are NoNum;      *)
(* channel counts are in tenths (5.1 is 51).                               *)
(***************************************************************************)
NoNum == 0 - 1
NoCodec == "None"

V1080 == [id |-> "v1080", codec |-> "H264", range |-> "SDR", bitrate |-> 5000000,
          height |-> 1080, width |-> 1920, language |-> "en"]
V720 == [id |-> "v720", codec |-> "H264", range |-> "SDR", bitrate |-> NoNum,
         height |-> 720, width |-> 1280, language |-> "en"]
V720W == [id |-> "v720w", codec |-> "H265", range |-> "HDR10", bitrate |-> 5000999,
          height |-> 720, width |-> 1920, language |-> "fr"]
A20 == [id |-> "a20", codec |-> "AAC", bitrate |-> 128000, channels |-> 20,
        language |-> "en", descriptive |-> FALSE]
A60 == [id |-> "a60", codec |-> "EC3", bitrate |-> 640000, channels |-> 60,
        language |-> "en-US", descriptive |-> FALSE]
ANoChannels == [id |-> "a_nochannels", codec |-> "AAC", bitrate |-> NoNum, channels |-> NoNum,
                language |-> "fr", descriptive |-> FALSE]
AAD == [id |-> "aAD", codec |-> "AAC", bitrate |-> NoNum, channels |-> 51,
        language |-> "fr", descriptive |-> TRUE]
AudioCatalog == {A20, A60, ANoChannels, AAD}
SEn == [id |-> "s_en", language |-> "en", forced |-> FALSE]
SFrForced == [id |-> "s_fr_forced", language |-> "fr", forced |-> TRUE]

\* Lists of at most n distinct members of S.
Lists(S, n) ==
    {l \in UNION {[1..k -> S] : k \in 0..n} : \A i, j \in 1..Len(l) : i /= j => l[i] /= l[j]}

\* x in a list
InSeq(x, l) == \E n \in 1..Len(l) : l[n] = x

\* The base language of a tag.
Base(language) == IF language \in {"en", "en-US"} THEN "en" ELSE language

\* is_close_match(language, languages): some requested tag is within the
\* maximum distance (a region variant of the same base language).
is_close_match(language, languages) ==
    \E n \in 1..Len(languages) : Base(languages[n]) = Base(language)

RECURSIVE by_language(_, _, _)
\* Tracks.by_language(tracks, languages, per_language): for each requested
\* language in turn, the tracks that closely match it, at most per_language
\* of them when per_language is not 0.
by_language(tracks, languages, per_language) ==
    IF languages = <<>> THEN <<>>
    ELSE LET m == SelectSeq(tracks, LAMBDA x : is_close_match(x.language, <<Head(languages)>>))
         IN  (IF per_language = 0 \/ Len(m) <= per_language THEN m ELSE SubSeq(m, 1, per_language))
                \o by_language(tracks, Tail(languages), per_language)

\* int(t.width * (9 / 16))
Canvas(width) == (width * 9) \div 16

RECURSIVE by_resolutions(_, _)
\* Tracks.by_resolutions(resolutions): for each requested resolution in turn,
\* the best-matching videos: those of that height or, when there is none,
\* those whose width gives it on a 16:9 canvas.
by_resolutions(videos, resolutions) ==
    IF resolutions = <<>> THEN <<>>
    ELSE LET exact == SelectSeq(videos, LAMBDA x : x.height = Head(resolutions))
             canvas == SelectSeq(videos, LAMBDA x : x.width /= NoNum /\ Canvas(x.width) = Head(resolutions))
         IN  (IF exact /= <<>> THEN exact ELSE canvas) \o by_resolutions(videos, Tail(resolutions))

\* Tracks(kept_tracks): a collection built from a flat list of tracks.
Tracks(videos, audio, subtitles, chapters) ==
    [videos |-> videos, audio |-> audio, subtitles |-> subtitles, chapters |-> chapters]

\* the three select_video passes: codec, range, bitrate
VideoFilters(videos, c) ==
    LET a == IF c.vcodec /= NoCodec THEN SelectSeq(videos, LAMBDA x : x.codec = c.vcodec) ELSE videos
        b == IF c.range_ /= <<>> THEN SelectSeq(a, LAMBDA x : InSeq(x.range, c.range_)) ELSE a
    IN  IF c.vbitrate /= 0
        THEN SelectSeq(b, LAMBDA x : x.bitrate /= NoNum /\ x.bitrate \div 1000 = c.vbitrate)
        ELSE b

\* video_languages = self.v_lang or self.lang; tracks.videos = by_language(...)
VideoLanguage(videos, c) ==
    LET video_languages == IF c.v_lang /= <<>> THEN c.v_lang ELSE c.lang
    IN  IF video_languages /= <<>> /\ ~InSeq("all", video_languages)
        THEN by_language(videos, video_languages, 0)
        ELSE videos

\* product(self.quality or [None], self.range_ or [None])
Product(quality, range_) ==
    LET q == IF quality = <<>> THEN <<NoNum>> ELSE quality
        r == IF range_ = <<>> THEN <<"None">> ELSE range_
    IN  [n \in 1..(Len(q) * Len(r)) |->
            [resolution |-> q[((n - 1) \div Len(r)) + 1], color_range |-> r[((n - 1) % Len(r)) + 1]]]

\* the condition of the generator inside next(...)
PairMatches(t, resolution, color_range) ==
    \/ resolution = NoNum /\ color_range = "None"
    \/ /\ \/ resolution = NoNum
          \/ t.height = resolution
          \/ (t.width /= NoNum /\ Canvas(t.width) = resolution)
       /\ (color_range = "None" \/ t.range = color_range)

RECURSIVE Picked(_, _)
\* [track for pair in product(...) if (track := next(matches of pair, None))]
Picked(videos, pairs) ==
    IF pairs = <<>> THEN <<>>
    ELSE LET m == SelectSeq(videos, LAMBDA t : PairMatches(t, Head(pairs).resolution, Head(pairs).color_range))
         IN  (IF m = <<>> THEN <<>> ELSE <<Head(m)>>) \o Picked(videos, Tail(pairs))

\* [...] or tracks.videos
OrCandidates(picked, candidates) == IF picked /= <<>> THEN picked ELSE candidates

\* by_resolutions, then one track per (resolution, range) pair, or the candidates
ResolutionRange(videos, c) ==
    LET candidates == IF c.quality /= <<>> THEN by_resolutions(videos, c.quality) ELSE videos
    IN  OrCandidates(Picked(candidates, Product(c.quality, c.range_)), candidates)

\* Mutant of SubtitleFilters: the forced pass is missing.
SubtitleFilters_KeepForced(subtitles, c) ==
    IF c.s_lang /= <<>> /\ ~InSeq("all", c.s_lang)
    THEN SelectSeq(subtitles, LAMBDA x : is_close_match(x.language, c.s_lang))
    ELSE subtitles

\* the two select_subtitles passes: language range, forced
SubtitleFilters(subtitles, c) ==
    LET a == IF c.s_lang /= <<>> /\ ~InSeq("all", c.s_lang)
             THEN SelectSeq(subtitles, LAMBDA x : is_close_match(x.language, c.s_lang))
             ELSE subtitles
    IN  SelectSeq(a, LAMBDA x : ~x.forced \/ is_close_match(x.language, c.lang))

\* Mutant of Ceil: the channel count is rounded down.
Ceil_Floor(channels) == channels \div 10

\* math.ceil of a channel count
Ceil(channels) == (channels + 9) \div 10

\* if tracks.audio: not descriptive, codec, bitrate, channels, by_language
AudioFilters(audio, c) ==
    IF audio = <<>> THEN audio
    ELSE LET a == SelectSeq(audio, LAMBDA x : ~x.descriptive)
             b == IF c.acodec /= NoCodec THEN SelectSeq(a, LAMBDA x : x.codec = c.acodec) ELSE a
             d == IF c.abitrate /= 0
                  THEN SelectSeq(b, LAMBDA x : x.bitrate /= NoNum /\ x.bitrate \div 1000 = c.abitrate)
                  ELSE b
             e == IF c.channels /= NoNum
                  THEN SelectSeq(d, LAMBDA x : x.channels /= NoNum /\ Ceil(x.channels) = Ceil(c.channels))
                  ELSE d
         IN  IF c.lang /= <<>> /\ ~InSeq("all", c.lang) THEN by_language(e, c.lang, 1) ELSE e

\* if self.video_only or self.audio_only or self.subs_only or self.chapters_only:
AnyOnly(c) == c.video_only \/ c.audio_only \/ c.subs_only \/ c.chapters_only

\* Mutant of Kept: the chapters are kept only along with a video track.
Kept_ChaptersNeedVideo(tracks, c) ==
    Tracks(IF c.video_only THEN tracks.videos ELSE <<>>,
           IF c.audio_only THEN tracks.audio ELSE <<>>,
           IF c.subs_only THEN tracks.subtitles ELSE <<>>,
           IF c.chapters_only /\ tracks.videos /= <<>> THEN tracks.chapters ELSE <<>>)

\* Mutant of Kept: the audio tracks are appended to kept_tracks twice.
Kept_AudioTwice(tracks, c) ==
    Tracks(IF c.video_only THEN tracks.videos ELSE <<>>,
           IF c.audio_only THEN tracks.audio \o tracks.audio ELSE <<>>,
           IF c.subs_only THEN tracks.subtitles ELSE <<>>,
           IF c.chapters_only THEN tracks.chapters ELSE <<>>)

\* kept_tracks of the only-flags, as the Tracks built from it
Kept(tracks, c) ==
    Tracks(IF c.video_only THEN tracks.videos ELSE <<>>,
           IF c.audio_only THEN tracks.audio ELSE <<>>,
           IF c.subs_only THEN tracks.subtitles ELSE <<>>,
           IF c.chapters_only THEN tracks.chapters ELSE <<>>)

\* TrackSelector.select(title): tracks is title.tracks itself, so every
\* assignment to tracks.videos / .audio / .subtitles lands in the title;
\* .tracks is what the title holds when the call returns, .result what the
\* call returns.
select(t, c) ==
    LET isMovieOrEpisode == t.kind \in {"Movie", "Episode"}
        videos == IF isMovieOrEpisode
                  THEN ResolutionRange(VideoLanguage(VideoFilters(t.tracks.videos, c), c), c)
                  ELSE t.tracks.videos
        subtitles == IF isMovieOrEpisode THEN SubtitleFilters(t.tracks.subtitles, c)
                     ELSE t.tracks.subtitles
        tracks == Tracks(videos, AudioFilters(t.tracks.audio, c), subtitles, t.tracks.chapters)
    IN  [tracks |-> tracks, result |-> IF AnyOnly(c) THEN Kept(tracks, c) ELSE tracks]

\* The titles: a movie with up to MaxTracks tracks of each kind, a song with
\* audio only; two chapters.
Titles ==
    {[kind |-> "Movie", tracks |-> Tracks(v, a, s, <<"ch1", "ch2">>)] :
        v \in Lists({V1080, V720, V720W}, MaxTracks), a \in Lists(AudioCatalog, MaxTracks),
        s \in Lists({SEn, SFrForced}, MaxTracks)}
    \cup {[kind |-> "Song", tracks |-> Tracks(<<>>, a, <<>>, <<>>)] :
             a \in Lists(AudioCatalog, MaxTracks)}

\* dl's options with nothing requested
NoCriteria ==
    [quality |-> <<>>, vcodec |-> NoCodec, acodec |-> NoCodec, vbitrate |-> 0, abitrate |-> 0,
     range_ |-> <<>>, channels |-> NoNum, lang |-> <<>>, v_lang |-> <<>>, s_lang |-> <<>>,
     video_only |-> FALSE, audio_only |-> FALSE, subs_only |-> FALSE, chapters_only |-> FALSE]

OnlyFlags ==
    {[video_only |-> FALSE, audio_only |-> FALSE, subs_only |-> FALSE, chapters_only |-> FALSE],
     [video_only |-> TRUE, audio_only |-> FALSE, subs_only |-> FALSE, chapters_only |-> FALSE],
     [video_only |-> FALSE, audio_only |-> TRUE, subs_only |-> TRUE, chapters_only |-> FALSE],
     [video_only |-> FALSE, audio_only |-> FALSE, subs_only |-> FALSE, chapters_only |-> TRUE]}

\* The selectors: the quality / range / language / only-flag options in every
\* combination, the other video options together, and the audio and subtitle
\* options together.
Criterias ==
    {[NoCriteria EXCEPT !.quality = q, !.range_ = r, !.lang = l,
                        !.video_only = f.video_only, !.audio_only = f.audio_only,
                        !.subs_only = f.subs_only, !.chapters_only = f.chapters_only] :
        q \in {<<>>, <<1080>>, <<1080, 720>>, <<720, 1080>>, <<2160>>},
        r \in {<<>>, <<"SDR">>, <<"HDR10", "SDR">>},
        l \in {<<>>, <<"en">>, <<"all">>},
        f \in OnlyFlags}
    \cup {[NoCriteria EXCEPT !.vbitrate = vb, !.vcodec = vc, !.v_lang = vl, !.lang = l] :
             vb \in {0, 5000}, vc \in {NoCodec, "H264"}, vl \in {<<>>, <<"fr">>},
             l \in {<<>>, <<"fr", "en">>, <<"en", "en-US">>}}
    \cup {[NoCriteria EXCEPT !.abitrate = ab, !.acodec = ac, !.channels = ch, !.s_lang = sl,
                             !.lang = l] :
             ab \in {0, 128}, ac \in {NoCodec, "AAC"}, ch \in {NoNum, 51},
             sl \in {<<>>, <<"en">>, <<"all">>},
             l \in {<<>>, <<"fr", "en">>, <<"en", "en-US">>}}

NoTracks == Tracks(<<>>, <<>>, <<>>, <<>>)
NoSelect == [called |-> FALSE, assigned |-> FALSE, before |-> NoTracks, criteria |-> NoCriteria,
             result |-> NoTracks]

InitSelect ==
    /\ vaults = <<>> /\ ret = NoRet /\ trace = <<>>
    /\ BrokerIdle
    /\ ExportOff /\ ConcIdle /\ DlIdle /\ RunIdle
    /\ title \in Titles
    /\ criteria \in Criterias
    /\ selected = NoSelect
    /\ napplied = 0

selectFrame == <<vaults, ret, brokerVars, exportVars, concVars, dlVars, runVars>>

\* self.track_selector.select(title): the call, up to its return
Select ==
    /\ napplied < MaxSelects
    /\ ~(selected.called /\ ~selected.assigned)
    /\ napplied' = napplied + 1
    /\ LET r == select(title, criteria)
       IN  /\ title' = [title EXCEPT !.tracks = r.tracks]
           /\ selected' = [called |-> TRUE, assigned |-> FALSE, before |-> title.tracks,
                           criteria |-> criteria, result |-> r.result]
    /\ UNCHANGED <<criteria, selectFrame>>

\* title.tracks = <what select returned>
AssignTracks ==
    /\ selected.called /\ ~selected.assigned
    /\ title' = [title EXCEPT !.tracks = selected.result]
    /\ selected' = [selected EXCEPT !.assigned = TRUE]
    /\ UNCHANGED <<criteria, napplied, selectFrame>>

NextSelect == Select \/ AssignTracks

SpecSelect == InitSelect /\ [][NextSelect]_vars

(***************************************************************************)
(* SpecDl: dl.result downloading one title: a ThreadPoolExecutor of        *)
(* `downloads` threads, one unit of work (track.download) per entry of     *)
(* title.tracks, the as_completed loop, and the two handlers.              *)
(***************************************************************************)
\* iter(title.tracks): the videos, then the audio, then the subtitles
Iter(tracks) == tracks.videos \o tracks.audio \o tracks.subtitles

\* The titles downloaded: one video, with or without an audio track.
DlTitles ==
    {[kind |-> "Movie", tracks |-> Tracks(v, a, <<>>, <<>>)] :
        v \in {<<V1080>>, <<V720W>>}, a \in {<<>>, <<A20>>, <<A20, A60>>}}

\* The selectors of the download: nothing requested, or -q 720,1080.
DlCriterias == {NoCriteria, [NoCriteria EXCEPT !.quality = <<720, 1080>>]}

\* --downloads
DownloadsOptions == {1, 2}

\* The least member of a set of numbers.
Min(S) == CHOOSE i \in S : \A j \in S : i <= j

\* What the main thread holds when no exception is in flight / the user's
\* interrupt / the exception of unit i re-raised by download.result().
NoExc == [kind |-> "none", unit |-> 0]
KeyboardInterrupt == [kind |-> "KeyboardInterrupt", unit |-> 0]
UnitException(i) == [kind |-> "Exception", unit |-> i]

\* The units in a given state.
States(s) == {i \in DOMAIN pool.units : pool.units[i].state = s}
Running == States("running")
Done == States("returned") \cup States("raised")

InitDl ==
    /\ vaults = <<>> /\ ret = NoRet /\ trace = <<>>
    /\ BrokerIdle
    /\ ExportOff /\ ConcIdle /\ SelectIdle /\ RunIdle
    /\ config = <<>>
    /\ \E t \in DlTitles, c \in DlCriterias, d \in DownloadsOptions :
          LET tracks == Iter(select(t, c).result)
          IN  \E fates \in [1..Len(tracks) -> {"returned", "raised"}] :
                 pool = [downloads |-> d,
                         units |-> [i \in 1..Len(tracks) |->
                                       [track |-> tracks[i].id, fate |-> fates[i],
                                        state |-> "unsubmitted"]],
                         completed |-> <<>>]
    /\ \E s \in BOOLEAN :
          main = [pc |-> "submit", skip_dl |-> s, finished |-> {}, seen |-> {},
                  exc |-> NoExc, inflight |-> {}, interrupted |-> FALSE,
                  outcome |-> "running"]

dlFrame == <<vaults, ret, brokerVars, exportVars, concVars, selectVars, config, runVars>>

\* pool.submit(track.download, ...) for the next entry of title.tracks: the
\* generator is consumed by as_completed's set(fs), one submit per entry.
Submit ==
    /\ main.pc = "submit"
    /\ States("unsubmitted") /= {}
    /\ pool' = [pool EXCEPT !.units[Min(States("unsubmitted"))].state = "queued"]
    /\ UNCHANGED <<main, dlFrame>>

\* ThreadPoolExecutor(downloads): a thread of the pool is free to take a unit
Free(running, downloads) == running < downloads

\* A pool thread takes the oldest queued unit and calls track.download.
Start ==
    /\ States("queued") /= {}
    /\ Free(Cardinality(Running), pool.downloads)
    /\ pool' = [pool EXCEPT !.units[Min(States("queued"))].state = "running"]
    /\ UNCHANGED <<main, dlFrame>>

\* track.download of unit i returns or raises; its future is finished.
Finish(i) ==
    /\ pool.units[i].state = "running"
    /\ pool' = [pool EXCEPT !.units[i].state = pool.units[i].fate,
                            !.completed = Append(@, i)]
    /\ UNCHANGED <<main, dlFrame>>

\* futures.as_completed after set(fs): the futures already finished are
\* collected into a set, the others are waited for.
AsCompleted ==
    /\ main.pc = "submit"
    /\ States("unsubmitted") = {}
    /\ main' = [main EXCEPT !.pc = "wait", !.finished = Done]
    /\ UNCHANGED <<pool, dlFrame>>

\* Mutant of Yieldable: of the units that finish during the wait, the one
\* that finished last is handed over first.
Yieldable_Latest(completed, finished, seen) ==
    IF finished \ seen /= {} THEN finished \ seen
    ELSE {completed[n] : n \in {m \in 1..Len(completed) :
                                   /\ completed[m] \notin seen
                                   /\ \A k \in m + 1..Len(completed) : completed[k] \in seen}}

\* The units as_completed may hand to the loop next: any of those that had
\* finished when it began (a set, iterated in no particular order), then the
\* others in the order they finish.
Yieldable(completed, finished, seen) ==
    IF finished \ seen /= {} THEN finished \ seen
    ELSE {completed[n] : n \in {m \in 1..Len(completed) :
                                   /\ completed[m] \notin seen
                                   /\ \A k \in 1..m - 1 : completed[k] \in seen}}

\* Mutant of Leave: leaving the with block cancels the units that have not
\* finished.
Leave_Cancel(units) ==
    [i \in DOMAIN units |->
        IF units[i].state \in {"queued", "running"}
        THEN [units[i] EXCEPT !.state = "cancelled"] ELSE units[i]]

\* Leaving the with block: ThreadPoolExecutor.__exit__ is shutdown(wait=True),
\* which cancels nothing.
Leave(units) == units

\* download.result() of the future the loop is given: it returns, or re-raises
\* what the unit raised, and the exception leaves the with block.
Result(i) ==
    /\ main.pc = "wait"
    /\ i \in Yieldable(pool.completed, main.finished, main.seen)
    /\ IF pool.units[i].state = "raised"
       THEN /\ main' = [main EXCEPT !.pc = "shutdown", !.seen = @ \cup {i},
                                    !.exc = UnitException(i), !.inflight = Running]
            /\ pool' = [pool EXCEPT !.units = Leave(@)]
       ELSE /\ main' = [main EXCEPT !.seen = @ \cup {i}]
            /\ UNCHANGED pool
    /\ UNCHANGED dlFrame

\* Every future was handed to the loop and none raised: the with block is left.
Exhausted ==
    /\ main.pc = "wait"
    /\ main.seen = DOMAIN pool.units
    /\ main' = [main EXCEPT !.pc = "shutdown"]
    /\ pool' = [pool EXCEPT !.units = Leave(@)]
    /\ UNCHANGED dlFrame

\* Mutant of Report: the KeyboardInterrupt is handled like any exception.
Report_InterruptIsFailure(exc, skip_dl) ==
    IF exc.kind \in {"KeyboardInterrupt", "Exception"} THEN "Download Failed"
    ELSE IF skip_dl THEN "Skipped downloads"
    ELSE "post-processing"

\* The outcome of the title: the handlers of lines 488-507, or the code after
\* the try statement.
Report(exc, skip_dl) ==
    IF exc.kind = "KeyboardInterrupt" THEN "Download Cancelled"
    ELSE IF exc.kind = "Exception" THEN "Download Failed"
    ELSE IF skip_dl THEN "Skipped downloads"
    ELSE "post-processing"

\* Ctrl+C while the main thread submits or waits in as_completed.
Interrupt ==
    /\ main.pc \in {"submit", "wait"}
    /\ main' = [main EXCEPT !.pc = "shutdown", !.exc = KeyboardInterrupt,
                            !.interrupted = TRUE]
    /\ pool' = [pool EXCEPT !.units = Leave(@)]
    /\ UNCHANGED dlFrame

\* shutdown(wait=True) has joined the pool's threads (the queued units ran
\* too); the exception in flight, if any, reaches its handler.
Joined ==
    /\ main.pc = "shutdown"
    /\ States("queued") \cup Running = {}
    /\ main' = [main EXCEPT !.pc = "returned", !.outcome = Report(main.exc, main.skip_dl)]
    /\ UNCHANGED <<pool, dlFrame>>

\* Ctrl+C while shutdown(wait=True) joins the threads: the KeyboardInterrupt
\* replaces the exception in flight and the join is abandoned.
InterruptJoin ==
    /\ main.pc = "shutdown"
    /\ States("queued") \cup Running /= {}
    /\ main' = [main EXCEPT !.pc = "returned", !.exc = KeyboardInterrupt,
                            !.interrupted = TRUE,
                            !.outcome = Report(KeyboardInterrupt, main.skip_dl)]
    /\ UNCHANGED <<pool, dlFrame>>

NextDl ==
    \/ Submit
    \/ Start
    \/ \E i \in DOMAIN pool.units : Finish(i)
    \/ AsCompleted
    \/ \E i \in DOMAIN pool.units : Result(i)
    \/ Exhausted
    \/ Interrupt
    \/ Joined
    \/ InterruptJoin

SpecDl == InitDl /\ [][NextDl]_vars

(***************************************************************************)
(* SpecConfig: config.DRM.__init__ building config.drm.vaults from the     *)
(* [[drm.vaults]] tables, and Vaults.__init__ taking the list.             *)
(***************************************************************************)
\* VAULT_TYPE_MAP
VAULT_TYPE_MAP == {"API", "MySQL", "SQLite"}

\* The [[drm.vaults]] tables: up to MaxVaults, each with a type and a name.
VaultsData ==
    UNION {[1..k -> [type : VAULT_TYPE_MAP \cup {"Other"}, name : {"B1", "B2"}]] :
              k \in 0..MaxVaults}

InitConfig ==
    /\ vaults = <<>> /\ ret = NoRet /\ trace = <<>>
    /\ BrokerIdle
    /\ ExportOff /\ ConcIdle /\ SelectIdle /\ RunIdle
    /\ pool = <<>> /\ main = <<>>
    /\ \E d \in VaultsData :
          config = [pc |-> "DRM", given |-> d, vaults_data |-> d, vaults |-> <<>>,
                    error |-> "None"]

configFrame == <<ret, brokerVars, exportVars, concVars, selectVars, pool, main,
                runVars>>

\* vault_type(**vault_data)
NewVault(vault_data) == Vault(vault_data.name, "rw", [k \in KIDs |-> None])

\* for vault_data in vaults_data: one pass of the loop of DRM.__init__
AppendVault ==
    /\ config.pc = "DRM"
    /\ config.vaults_data /= <<>>
    /\ LET vault_data == Head(config.vaults_data)
       IN  IF vault_data.type \in VAULT_TYPE_MAP
           THEN config' = [config EXCEPT !.vaults_data = Tail(@),
                                         !.vaults = Append(@, NewVault(vault_data))]
           ELSE config' = [config EXCEPT !.pc = "raised", !.error = "KeyError"]
    /\ UNCHANGED <<vaults, configFrame>>

\* The loop is over: the configuration is built.
Built ==
    /\ config.pc = "DRM"
    /\ config.vaults_data = <<>>
    /\ config' = [config EXCEPT !.pc = "built"]
    /\ UNCHANGED <<vaults, configFrame>>

\* Vaults.__init__: self.vaults = config.drm.vaults
NewVaults ==
    /\ config.pc = "built"
    /\ vaults' = config.vaults
    /\ config' = [config EXCEPT !.pc = "pool"]
    /\ UNCHANGED configFrame

NextConfig == AppendVault \/ Built \/ NewVaults

SpecConfig == InitConfig /\ [][NextConfig]_vars

(***************************************************************************)
(* SpecUi: the callbacks of get_drm_callbacks for one title (dl.py,        *)
(* lines 432-468), called by the prepare_drm_keys calls of the title's     *)
(* tracks from the pool's threads.                                         *)
(***************************************************************************)
\* drm.pssh.dumps() of the descriptors
PSSHs == {"P1", "P2"}

\* What a call notifies after its announcement, in order.
KeyFound(kid) == [kind |-> "key", kid |-> kid]
Error == [kind |-> "error", kid |-> NoKid]
Scripts ==
    {<<>>, <<KeyFound("KID_A")>>, <<KeyFound("KID_A"), KeyFound("KID_B")>>, <<Error>>}

\* The calls of one title's tracks.
Callers == {1, 2, 3}

\* A label of a tree: what was notified; by is the PSSH the notifying call
\* had announced, which the label itself does not show.
Label(note, by) == [kind |-> note.kind, kid |-> note.kid, by |-> by]

InitUi ==
    /\ vaults = <<>> /\ ret = NoRet /\ trace = <<>>
    /\ BrokerIdle
    /\ ExportOff /\ ConcIdle /\ SelectIdle /\ DlIdle
    /\ run = <<>>
    /\ \E d \in DownloadsOptions :
          ui = [downloads |-> d, drm_trees |-> EmptyMap, trees |-> <<>>, rows |-> <<>>,
                tree_key |-> "", emitted |-> {}]
    /\ callers \in [Callers -> [pssh : PSSHs, script : Scripts, pc : {"queued"}, n : {1}]]

uiFrame == <<vaults, ret, brokerVars, exportVars, concVars, selectVars, dlVars, run>>

\* The calls inside prepare_drm_keys.
Calling == {c \in Callers : callers[c].pc \notin {"queued", "done"}}

\* A pool thread takes the next track; its call reaches self.on_pssh_init.
UStart(c) ==
    /\ callers[c].pc = "queued"
    /\ \A b \in Callers : b < c => callers[b].pc /= "queued"
    /\ Free(Cardinality(Calling), ui.downloads)
    /\ callers' = [callers EXCEPT ![c].pc = "on_pssh_init"]
    /\ UNCHANGED <<ui, uiFrame>>

\* if pssh not in drm_trees:
IsNew(pssh, drm_trees) == pssh \notin DOMAIN drm_trees

\* on_pssh_init: the test of line 447
UCheck(c) ==
    /\ callers[c].pc = "on_pssh_init"
    /\ callers' = [callers EXCEPT ![c].pc = IF IsNew(callers[c].pssh, ui.drm_trees)
                                            THEN "create" ELSE "notify"]
    /\ UNCHANGED <<ui, uiFrame>>

\* on_pssh_init: cek_tree = Tree(...); drm_trees[pssh] = cek_tree;
\* download_table.add_row(); download_table.add_row(cek_tree)
UCreate(c) ==
    /\ callers[c].pc = "create"
    /\ LET t == Len(ui.trees) + 1
       IN  ui' = [ui EXCEPT !.trees = Append(@, [pssh |-> callers[c].pssh, labels |-> {}]),
                            !.drm_trees = Update(@, [p \in {callers[c].pssh} |-> t]),
                            !.rows = @ \o <<0, t>>]
    /\ callers' = [callers EXCEPT ![c].pc = "tree_key"]
    /\ UNCHANGED uiFrame

\* on_pssh_init: nonlocal tree_key; tree_key = pssh
USetKey(c) ==
    /\ callers[c].pc = "tree_key"
    /\ ui' = [ui EXCEPT !.tree_key = callers[c].pssh]
    /\ callers' = [callers EXCEPT ![c].pc = "notify"]
    /\ UNCHANGED uiFrame

\* tree = drm_trees.get(tree_key): the key the tree is looked up with, for a
\* call that announced pssh
TreeFor(tree_key, pssh) == tree_key

\* tree.add(label) unless on_key_found finds kid:key among the tree's labels
AddLabel(labels, l) ==
    IF l.kind = "key" /\ \E x \in labels : x.kind = "key" /\ x.kid = l.kid
    THEN labels ELSE labels \cup {l}

\* on_key_found / on_error: the next notification of call c
UNotify(c) ==
    /\ callers[c].pc = "notify"
    /\ callers[c].n <= Len(callers[c].script)
    /\ LET note == callers[c].script[callers[c].n]
           key == TreeFor(ui.tree_key, callers[c].pssh)
       IN  ui' = [ui EXCEPT
                     !.emitted = @ \cup {Label(note, callers[c].pssh)},
                     !.trees = IF key \in DOMAIN ui.drm_trees
                               THEN [@ EXCEPT ![ui.drm_trees[key]].labels =
                                                  AddLabel(@, Label(note, callers[c].pssh))]
                               ELSE @]
    /\ callers' = [callers EXCEPT ![c].n = @ + 1]
    /\ UNCHANGED uiFrame

\* prepare_drm_keys returns or raises.
UDone(c) ==
    /\ callers[c].pc = "notify"
    /\ callers[c].n > Len(callers[c].script)
    /\ callers' = [callers EXCEPT ![c].pc = "done"]
    /\ UNCHANGED <<ui, uiFrame>>

NextUi ==
    \E c \in Callers : UStart(c) \/ UCheck(c) \/ UCreate(c) \/ USetKey(c) \/ UNotify(c) \/ UDone(c)

SpecUi == InitUi /\ [][NextUi]_vars

(***************************************************************************)
(* SpecRun: dl.result's loop over the titles of one request (dl.py, lines  *)
(* 376-591): each title is skipped, listed, or downloaded, post-processed  *)
(* and followed by the cookie save.                                        *)
(***************************************************************************)
\* What the download of a title ends with: nothing raised, the user's
\* interrupt, or the exception of a unit.
DownloadEnds == {NoExc, KeyboardInterrupt, UnitException(1)}

\* The titles of a request: whether the title is wanted, and how its download
\* will end.
TitlePlans ==
    UNION {[1..n -> [wanted : BOOLEAN, ends : DownloadEnds]] : n \in 1..MaxTitles}

InitRun ==
    /\ vaults = <<>> /\ ret = NoRet /\ trace = <<>>
    /\ BrokerIdle
    /\ ExportOff /\ ConcIdle /\ SelectIdle /\ DlIdle
    /\ ui = <<>> /\ callers = <<>>
    /\ \E t \in TitlePlans, s, l, c \in BOOLEAN :
          run = [titles |-> t, skip_dl |-> s, list_ |-> l, cookie_file |-> c,
                 i |-> 1, pc |-> "title", log |-> <<>>]

runFrame == <<vaults, ret, brokerVars, exportVars, concVars, selectVars, dlVars, ui, callers>>

\* An entry of the run's log: what was done for title i.
Did(i, what) == [title |-> i, what |-> what]

\* for i, title in enumerate(titles): a title that is not wanted is passed
\* over; with --list its tracks are printed and the loop goes on.
PassTitle ==
    /\ run.pc = "title"
    /\ run.i <= Len(run.titles)
    /\ ~run.titles[run.i].wanted \/ run.list_
    /\ run' = [run EXCEPT !.i = @ + 1,
                          !.log = IF run.titles[run.i].wanted
                                  THEN Append(@, Did(run.i, "Available Tracks")) ELSE @]
    /\ UNCHANGED runFrame

\* Mutant of AfterReport: the handlers go on to the cookie save.
AfterReport_Continue(report) ==
    IF report = "post-processing" THEN "post-processing" ELSE "cookies"

\* Where the loop body goes on after the try statement: the handlers return,
\* --skip-dl goes to the cookie save, otherwise post-processing follows.
AfterReport(report) ==
    IF report \in {"Download Cancelled", "Download Failed"} THEN "returned"
    ELSE IF report = "Skipped downloads" THEN "cookies"
    ELSE "post-processing"

\* The title's tracks are selected and downloaded; the try statement ends.
DownloadTitle ==
    /\ run.pc = "title"
    /\ run.i <= Len(run.titles)
    /\ run.titles[run.i].wanted /\ ~run.list_
    /\ LET report == Report(run.titles[run.i].ends, run.skip_dl)
       IN  run' = [run EXCEPT !.pc = AfterReport(report),
                              !.log = @ \o <<Did(run.i, "download"), Did(run.i, report)>>]
    /\ UNCHANGED runFrame

\* PostProcessor, muxing, shutil.move
PostProcess ==
    /\ run.pc = "post-processing"
    /\ run' = [run EXCEPT !.pc = "cookies", !.log = Append(@, Did(run.i, "moved"))]
    /\ UNCHANGED runFrame

\* update cookies: save_cookies when there is a cookie file; the next title
SaveCookies ==
    /\ run.pc = "cookies"
    /\ run' = [run EXCEPT !.pc = "title", !.i = @ + 1,
                          !.log = IF run.cookie_file
                                  THEN Append(@, Did(run.i, "save_cookies")) ELSE @]
    /\ UNCHANGED runFrame

\* The loop is over: "Processed all titles".
Processed ==
    /\ run.pc = "title"
    /\ run.i > Len(run.titles)
    /\ run' = [run EXCEPT !.pc = "returned", !.log = Append(@, Did(0, "Processed all titles"))]
    /\ UNCHANGED runFrame

NextRun == PassTitle \/ DownloadTitle \/ PostProcess \/ SaveCookies \/ Processed

SpecRun == InitRun /\ [][NextRun]_vars

(***************************************************************************)
(* Claims                                                                  *)
(***************************************************************************)
\* A key that is present and not all zeros, stated without the pool's test.
RealKey(key) == key /= None /\ \E n \in 1..Len(key) : key[n] /= "0"

\* The positions of the trace that hold an event of the given type.
EventsOf(type) == {n \in 1..Len(trace) : trace[n].type = type}

ExchangeReturned == \E n \in EventsOf("exchange") : trace[n].flag

Finished == pc = "idle" /\ outcome \notin {"none", "running"}

\* The pool reordered by a permutation of its positions.
Reordered(vs, p) == [j \in 1..Len(vs) |-> vs[p[j]]]

\* C1's case: both modes off, the descriptor requires KID_A and KID_B, the
\* pool's single backend accepts writes and supplied KID_A, KID_B was asked of
\* the device and the device supplied a real key for it.
C1_Case ==
    /\ Finished
    /\ ncalls = 1
    /\ ~cdm_only /\ ~vaults_only
    /\ kids = <<"KID_A", "KID_B">>
    /\ Len(vaults) = 1 /\ vaults[1].mode = "rw"
    /\ \E n \in EventsOf("key_found") : trace[n].kid = "KID_A" /\ trace[n].src = "B1"
    /\ \E n \in EventsOf("exchange") : trace[n].kid = "KID_B" /\ trace[n].flag
    /\ \E n \in EventsOf("key_found") :
          trace[n].kid = "KID_B" /\ trace[n].src = "CDM" /\ RealKey(trace[n].key)

\* C1: in that case KID_A came from the cache, exactly one exchange was made,
\* the call returned with KID_A and KID_B in the key map, and KID_B is in the
\* cache backend.
C1_EndToEnd ==
    C1_Case =>
        /\ Cardinality(EventsOf("exchange")) = 1
        /\ outcome = "return drm"
        /\ {"KID_A", "KID_B"} \subseteq DOMAIN content_keys
        /\ vaults[1].store["KID_B"] = content_keys["KID_B"]

\* C2: in vaults-only mode the device exchange is never entered, and a lookup
\* of a key-id that no backend holds a real key for is followed at once by
\* on_error and the call ends with CEKNotFound.
C2_VaultsOnlyNeverExchanges ==
    vaults_only =>
        /\ EventsOf("exchange") = {}
        /\ pc \notin {"exchange", "post_exchange"}
        /\ \A n \in EventsOf("get_key") :
              (\A j \in 1..Len(vaults) : ~RealKey(vaults[j].store[trace[n].kid])) =>
                 /\ Len(trace) = n + 1
                 /\ trace[n + 1].type = "error"
                 /\ trace[n + 1].kid = trace[n].kid
                 /\ pc = "idle"
                 /\ outcome = "CEKNotFound"

C2_Witness ==
    /\ vaults_only
    /\ outcome = "CEKNotFound"
    /\ Len(vaults) > 0
    /\ \E n \in EventsOf("get_key") : trace[n].kid = "KID_B"
    /\ "KID_A" \in DOMAIN content_keys

\* C3: a call holds at most one exchange, and after the exchange the trace of
\* the call holds no cache lookup and no exchange; the loop is not re-entered.
C3_OneExchangePerCall ==
    /\ Cardinality(EventsOf("exchange")) <= 1
    /\ \A m \in EventsOf("exchange") : \A n \in (m + 1)..Len(trace) :
          trace[n].type \notin {"get_key", "exchange"}
    /\ ExchangeReturned => pc \in {"post_exchange", "after_loop", "idle"}

\* the exchange was made for the first of two key-ids, the second one is
\* still unresolved when the call has returned
C3_Witness ==
    /\ Finished /\ outcome = "return drm"
    /\ kids = <<"KID_A", "KID_B">>
    /\ \E n \in EventsOf("exchange") : trace[n].kid = "KID_A" /\ trace[n].flag
    /\ "KID_B" \notin DOMAIN content_keys

\* C4: after a call whose exchange returned, with a pool of backends that all
\* accept writes, get_key returns the key-map value for every real key of the
\* key map, in every order of the backends.
C4_ResolvedOnceThenCached ==
    (/\ Finished
     /\ \E n \in EventsOf("add_keys") : TRUE
     /\ Len(vaults) > 0
     /\ \A j \in 1..Len(vaults) : vaults[j].mode = "rw") =>
        \A k \in DOMAIN content_keys : RealKey(content_keys[k]) =>
            \A p \in Permutations(1..Len(vaults)) :
                Vaults_get_key(Reordered(vaults, p), k).key = content_keys[k]

\* C5: get_key returns the key and the name of the first backend, in
\* configured order, that holds a real key, having queried no backend after
\* it; (None, None) when there is none; the pool is left as it was.
C5_FirstRealKeyWins ==
    ret.op = "get_key" =>
        LET vs == ret.before
            holders == {j \in 1..Len(vs) : RealKey(vs[j].store[ret.kid])}
        IN  /\ vaults = vs
            /\ IF holders = {}
               THEN ret.key_out = None /\ ret.vault = NoVault
               ELSE LET first == CHOOSE j \in holders : \A h \in holders : j <= h
                    IN  /\ ret.key_out = vs[first].store[ret.kid]
                        /\ ret.vault = vs[first].name
                        /\ ret.queried = first

\* B1 has no key, B2 a real key, B3 a different real key: B2's key
C5_Witness ==
    /\ ret.op = "get_key"
    /\ Len(ret.before) = 3
    /\ ret.before[1].store[ret.kid] = None
    /\ ret.before[2].store[ret.kid] = KeyX
    /\ ret.before[3].store[ret.kid] = KeyY
    /\ ret.key_out = KeyX /\ ret.vault = "B2"

\* The pool with every all-zero key taken out of every backend.
WithoutZeroKeys(vs) ==
    [j \in 1..Len(vs) |->
        [vs[j] EXCEPT !.store = [k \in KIDs |-> IF RealKey(vs[j].store[k]) THEN vs[j].store[k] ELSE None]]]

\* C6: get_key returns what it returns on the pool with the all-zero keys
\* removed: never an all-zero key, and (None, None) when every backend is
\* absent or all-zero.
C6_ZeroKeyIsAbsent ==
    ret.op = "get_key" =>
        LET clean == Vaults_get_key(WithoutZeroKeys(ret.before), ret.kid)
        IN  /\ ret.key_out = clean.key
            /\ ret.vault = clean.vault
            /\ ret.key_out /= ZeroKey
            /\ (\A j \in 1..Len(ret.before) : ret.before[j].store[ret.kid] \in {None, ZeroKey})
                  => ret.key_out = None /\ ret.vault = NoVault

\* B1 holds an all-zero key, B2 a real one: the lookup went on to B2
C6_Witness ==
    /\ ret.op = "get_key"
    /\ Len(ret.before) >= 2
    /\ ret.before[1].store[ret.kid] = ZeroKey
    /\ ret.before[2].store[ret.kid] = KeyY
    /\ ret.key_out = KeyY /\ ret.vault = "B2"

\* C7: add_key attempts one write on each backend other than `excluding`, in
\* order, none on `excluding`; no exception leaves the call; the count is the
\* number of writes that succeeded; the backends that accepted hold the key,
\* the others are as before.
C7_AddKeyBroadcast ==
    ret.op = "add_key" =>
        LET vs == ret.before
            targets == {j \in 1..Len(vs) : vs[j].name /= ret.excluding}
        IN  /\ ret.raised = "None"
            /\ Len(ret.writes) = Cardinality(targets)
            /\ {ret.writes[n].src : n \in 1..Len(ret.writes)} = {vs[j].name : j \in targets}
            /\ \A n \in 1..Len(ret.writes) :
                  /\ ret.writes[n].src /= ret.excluding
                  /\ ret.writes[n].kid = ret.kid /\ ret.writes[n].key = ret.key
            /\ ret.success = Cardinality({n \in 1..Len(ret.writes) : ret.writes[n].flag})
            /\ ret.success = Cardinality({j \in targets : vs[j].mode = "rw"})
            /\ Len(vaults) = Len(vs)
            /\ \A j \in 1..Len(vs) :
                  IF j \in targets /\ vs[j].mode = "rw"
                  THEN vaults[j] = [vs[j] EXCEPT !.store[ret.kid] = ret.key]
                  ELSE vaults[j] = vs[j]

\* B1 refuses, B2 is excluded, B3 accepts the write after B1's refusal
C7_Witness ==
    /\ ret.op = "add_key"
    /\ Len(ret.before) = 3
    /\ ret.before[1].mode = "NotImplementedError"
    /\ ret.excluding = "B2" /\ ret.before[2].mode = "rw"
    /\ ret.before[3].mode = "rw"
    /\ ret.success = 1
    /\ vaults[3].store[ret.kid] = ret.key
    /\ vaults[2] = ret.before[2]

\* C8: add_keys attempts the bulk write on every backend, raises nothing, and
\* returns the sum of the counts of the backends that accepted.
C8_AddKeysBroadcast ==
    ret.op = "add_keys" =>
        LET vs == ret.before
        IN  /\ ret.raised = "None"
            /\ Len(ret.writes) = Len(vs)
            /\ ret.success = Cardinality({j \in 1..Len(vs) : vs[j].mode = "rw"})
                                * Cardinality(DOMAIN ret.kid_keys)

\* The events of the trace from position n on, up to the first that is no
\* backend write.
RECURSIVE WritesFrom(_)
WritesFrom(n) ==
    IF n > Len(trace) \/ trace[n].type /= "write" THEN <<>>
    ELSE <<trace[n]>> \o WritesFrom(n + 1)

\* C9: a key-found event with a backend B as source follows the lookup of its
\* key-id and is followed by one write per backend other than B, none to B;
\* every backend that accepts writes then holds the key; right after the hit
\* the key map holds the key.
C9_HitWarmsOthers ==
    \A n \in EventsOf("key_found") : trace[n].src /= "CDM" =>
        LET e == trace[n]
            ws == WritesFrom(n + 1)
            others == {j \in 1..Len(vaults) : vaults[j].name /= e.src}
        IN  /\ n > 1 /\ trace[n - 1].type = "get_key" /\ trace[n - 1].kid = e.kid
            /\ \E j \in 1..Len(vaults) : vaults[j].name = e.src /\ vaults[j].store[e.kid] = e.key
            /\ Len(ws) = Cardinality(others)
            /\ {ws[m].src : m \in 1..Len(ws)} = {vaults[j].name : j \in others}
            /\ \A m \in 1..Len(ws) : ws[m].kid = e.kid /\ ws[m].key = e.key /\ ws[m].src /= e.src
            /\ \A j \in others : vaults[j].mode = "rw" => vaults[j].store[e.kid] = e.key
            /\ (n + Len(ws) = Len(trace)) =>
                  e.kid \in DOMAIN content_keys /\ content_keys[e.kid] = e.key

\* a hit in B2 while B1 accepts writes: B1 is warmed, B2 is not written
C9_Witness ==
    /\ Len(vaults) = 2
    /\ \E n \in EventsOf("key_found") :
          /\ trace[n].src = "B2"
          /\ n + 1 = Len(trace)
          /\ trace[n + 1].type = "write" /\ trace[n + 1].src = "B1" /\ trace[n + 1].flag
          /\ vaults[1].store[trace[n].kid] = trace[n].key
          /\ content_keys[trace[n].kid] = trace[n].key

\* C10: once the statements after the exchange have run, every key of the
\* snapshot taken before the exchange is in the key map with its value.
C10_SnapshotSurvivesExchange ==
    (EventsOf("add_keys") /= {}) =>
        \A k \in DOMAIN from_vaults :
            k \in DOMAIN content_keys /\ content_keys[k] = from_vaults[k]

\* the cache supplied KID_A, then the device returned another value for KID_A
C10_Witness ==
    /\ EventsOf("add_keys") /= {}
    /\ "KID_A" \in DOMAIN from_vaults
    /\ \E n \in EventsOf("key_found") :
          trace[n].src = "CDM" /\ trace[n].kid = "KID_A" /\ trace[n].key /= from_vaults["KID_A"]
    /\ content_keys["KID_A"] = from_vaults["KID_A"]

C12_ErrorBeforeRaise ==
    (Finished /\ outcome \notin {"return drm", "return None"} /\ EventsOf("pssh") /= {}) =>
        EventsOf("error") /= {}

\* C13: a call that returned with a track_kid holds a real (not all-zero) key
\* for it, and the loop is never past a key-id whose value is all-zero.
C13_ZeroIsUnresolved ==
    /\ (outcome = "return drm" /\ track_kid /= NoKid) =>
          track_kid \in DOMAIN content_keys /\ RealKey(content_keys[track_kid])
    /\ pc = "loop" =>
          \A j \in 1..(idx - 1) : j <= Len(kids) =>
              kids[j] \in DOMAIN content_keys /\ RealKey(content_keys[kids[j]])

\* C17 as stated: every call on a Widevine descriptor holds exactly one PSSH
\* announcement, ahead of every key-found and error notification.
C17_PsshOnceFirst_Original ==
    (ncalls > 0 /\ outcome /= "return None") =>
        /\ Cardinality(EventsOf("pssh")) = 1
        /\ \A n \in EventsOf("key_found") \cup EventsOf("error") :
              \E m \in EventsOf("pssh") : m < n

\* C17, amended: a call on a Widevine descriptor with a Widevine CDM loaded
\* holds exactly one PSSH announcement, as its first event; a call without
\* one ends with ValueError and emits nothing.
C17_PsshOnceFirst ==
    (ncalls > 0 /\ outcome /= "return None") =>
        IF cdm_ok
        THEN /\ Cardinality(EventsOf("pssh")) = 1
             /\ trace[1].type = "pssh"
             /\ \A n \in EventsOf("key_found") \cup EventsOf("error") : n > 1
        ELSE outcome = "ValueError" /\ trace = <<>>

\* a call that emitted key-found and error notifications after its PSSH
C17_Witness ==
    /\ Finished /\ cdm_ok
    /\ EventsOf("key_found") /= {} /\ EventsOf("error") /= {}
    /\ trace[1].type = "pssh"

\* C18: in CDM-only mode no call reads the pool, no key comes from a backend,
\* and the first thing a call does after its PSSH announcement, if anything,
\* is the exchange (or, with every key-id already in the key map, the check
\* of track_kid).
C18_CdmOnlySkipsPool ==
    cdm_only =>
        /\ EventsOf("get_key") = {}
        /\ \A n \in EventsOf("key_found") : trace[n].src = "CDM"
        /\ EventsOf("write") = {}
        /\ Len(trace) > 1 => trace[2].type \in {"exchange", "error"}

\* CDM-only, a pool that holds the key, and the key came from the device
C18_Witness ==
    /\ cdm_only /\ Finished
    /\ Len(vaults) > 0 /\ RealKey(vaults[1].store["KID_A"])
    /\ \E n \in EventsOf("exchange") : trace[n].kid = "KID_A" /\ trace[n].flag
    /\ "KID_A" \in DOMAIN content_keys

\* The entries of a document: (title, track, kid hex, key).
Entries(doc) ==
    UNION {UNION {{<<t, r, h, doc[t][r][h]>> : h \in DOMAIN doc[t][r]} : r \in DOMAIN doc[t]} :
              t \in DOMAIN doc}

\* C14: a call that returns with a non-empty key map and an export sink
\* leaves a document that holds every key of the key map under (title,
\* track) and, under every other title or track, exactly the entries the file
\* held (none, when there was no file); any other step leaves the file alone.
C14_ExportMerges ==
    [][ IF pc /= "idle" /\ pc' = "idle" /\ outcome' = "return drm"
           /\ export /\ content_keys /= EmptyMap
        THEN /\ keys_file'.exists /\ keys_file'.writes = keys_file.writes + 1
             /\ \A k \in DOMAIN content_keys :
                   <<ThisTitle, track, Hex(k), content_keys[k]>> \in Entries(keys_file'.doc)
             /\ {e \in Entries(keys_file'.doc) : e[1] /= ThisTitle \/ e[2] /= track}
                  = {e \in Entries(IF keys_file.exists THEN keys_file.doc ELSE EmptyMap) :
                        e[1] /= ThisTitle \/ e[2] /= track}
        ELSE keys_file' = keys_file ]_vars

\* an export into a file that held another track's entry, after an exchange
C14_Witness ==
    /\ Finished /\ outcome = "return drm" /\ export /\ ExchangeReturned
    /\ keys_file.writes = 1 /\ track = "T1"
    /\ <<ThisTitle, "T2", "0a", KeyY>> \in Entries(keys_file.doc)
    /\ \E k \in Keys : <<ThisTitle, "T1", "0a", k>> \in Entries(keys_file.doc)

\* Both workers' calls are over.
BothDone == workers /= <<>> /\ \A w \in Workers : workers[w].pc = "done"

\* C15: when the two workers' calls for two distinct tracks have both
\* returned after writing the export file, the document holds an entry for
\* each of the two tracks.
C15_BothEntriesSurvive ==
    (BothDone /\ keys_file.writes = 2 /\ workers[1].track /= workers[2].track) =>
        \A w \in Workers :
            \E e \in Entries(keys_file.doc) : e[1] = ThisTitle /\ e[2] = workers[w].track

\* C16: two workers on the same descriptor make at most two exchanges, and
\* neither raises CEKNotFound for a track_kid that its own call saw supplied
\* (in the key map, from the cache, or from its exchange).
C16_NoRaiseForSuppliedKey ==
    (workers /= <<>> /\ workers[1].drm = workers[2].drm) =>
        /\ workers[1].exchanges + workers[2].exchanges <= 2
        /\ \A w \in Workers :
              workers[w].outcome = "CEKNotFound" => workers[w].track_kid \notin workers[w].seen

\* C19: when select(title) has returned, the title's track collection is
\* what it was before the call and the selector's criteria are unchanged.
C19_SelectHasNoSideEffect ==
    (selected.called /\ ~selected.assigned) =>
        title.tracks = selected.before /\ criteria = selected.criteria

\* C20: applying select to a title that holds the result of select(title, C)
\* returns that same track collection.
C20_SelectIdempotent ==
    [][ (selected.called /\ selected.assigned /\ napplied' = napplied + 1) =>
            selected'.result = selected.result ]_vars

\* a second select returned what the first had returned, the first having
\* dropped video, audio and subtitle tracks and kept only the flagged kinds
C20_Witness ==
    /\ napplied = 2 /\ selected.called
    /\ selected.result = selected.before
    /\ AnyOnly(criteria) /\ criteria.quality /= <<>>
    /\ selected.result.audio /= <<>> /\ selected.result.videos = <<>>

\* select has returned and its result is not yet assigned: title.tracks is
\* the collection the call worked on, selected.before what it was given.
JustSelected == selected.called /\ ~selected.assigned

\* The members of a list.
Members(l) == {l[n] : n \in 1..Len(l)}

\* The video candidates that enter resolution selection.
Candidates == VideoLanguage(VideoFilters(selected.before.videos, criteria), criteria)

\* The requested (quality, range) pairs.
Pairs == Product(criteria.quality, criteria.range_)

\* Some candidate matches some requested pair.
CrossProductMatches ==
    \E t \in Members(Candidates), p \in Members(Pairs) : PairMatches(t, p.resolution, p.color_range)

\* C21: when no candidate matches any requested pair the video list after
\* resolution selection is the candidate list, and a non-empty candidate
\* list never becomes empty.
C21_NoMatchKeepsCandidates ==
    (JustSelected /\ title.kind = "Movie") =>
        /\ ~CrossProductMatches => title.tracks.videos = Candidates
        /\ Candidates /= <<>> => title.tracks.videos /= <<>>

\* C22: when the cross product matches, the video list holds at most one
\* track per pair, every track of it matches a requested pair, and no track
\* is in it twice.
C22_OnePerPairNoDuplicate ==
    (JustSelected /\ title.kind = "Movie" /\ CrossProductMatches) =>
        LET v == title.tracks.videos
        IN  /\ Len(v) <= Len(Pairs)
            /\ \A t \in Members(v) : \E p \in Members(Pairs) : PairMatches(t, p.resolution, p.color_range)
            /\ \A i, j \in 1..Len(v) : i /= j => v[i] /= v[j]

\* A channel count that is present and rounds up to the same whole number
\* as the target, in tenths: both lie in the same (10(n-1), 10n].
RoundsUpLike(channels, target) ==
    channels /= NoNum /\ \E n \in 0..9 : /\ 10 * (n - 1) < channels /\ channels <= 10 * n
                                         /\ 10 * (n - 1) < target /\ target <= 10 * n

\* C23: with a channel target, the audio list is made of exactly the tracks
\* that passed the earlier audio passes and whose channel count is present
\* and rounds up like the target (then cut by the language pass, if any).
C23_ChannelFilter ==
    (JustSelected /\ criteria.channels /= NoNum /\ selected.before.audio /= <<>>) =>
        LET c == criteria
            entering == SelectSeq(selected.before.audio,
                           LAMBDA x : /\ ~x.descriptive
                                      /\ (c.acodec = NoCodec \/ x.codec = c.acodec)
                                      /\ (c.abitrate = 0 \/ (x.bitrate /= NoNum /\ x.bitrate \div 1000 = c.abitrate)))
            passing == SelectSeq(entering, LAMBDA x : RoundsUpLike(x.channels, c.channels))
        IN  title.tracks.audio = IF c.lang /= <<>> /\ ~InSeq("all", c.lang)
                                 THEN by_language(passing, c.lang, 1)
                                 ELSE passing

\* a 5.1 target kept the 6.0 track and dropped the track with no channel count
C23_Witness ==
    /\ JustSelected /\ criteria.channels = 51
    /\ Members(selected.before.audio) = {A60, ANoChannels}
    /\ title.tracks.audio = <<A60>>

\* C24: with an only-flag set the result holds the flagged kinds as filtering
\* left them and nothing of the other kinds; with chapters-only alone it is
\* the title's chapter collection.
C24_OnlyFlags ==
    (JustSelected /\ AnyOnly(criteria)) =>
        /\ selected.result.videos = (IF criteria.video_only THEN title.tracks.videos ELSE <<>>)
        /\ selected.result.audio = (IF criteria.audio_only THEN title.tracks.audio ELSE <<>>)
        /\ selected.result.subtitles = (IF criteria.subs_only THEN title.tracks.subtitles ELSE <<>>)
        /\ selected.result.chapters = (IF criteria.chapters_only THEN title.tracks.chapters ELSE <<>>)
        /\ (criteria.chapters_only /\ ~criteria.video_only /\ ~criteria.audio_only /\ ~criteria.subs_only) =>
              selected.result = Tracks(<<>>, <<>>, <<>>, selected.before.chapters)

\* chapters-only on a title none of whose video and audio tracks passed
C24_Witness ==
    /\ JustSelected /\ criteria.chapters_only /\ ~criteria.video_only
    /\ selected.before.videos /= <<>> /\ title.tracks.videos = <<>>
    /\ selected.before.audio /= <<>> /\ title.tracks.audio = <<>>
    /\ selected.result.chapters = <<"ch1", "ch2">>

\* The subtitles that passed the subtitle language filter.
PassedSubtitleLanguage ==
    {x \in Members(selected.before.subtitles) :
        criteria.s_lang = <<>> \/ \E n \in 1..Len(criteria.s_lang) :
            criteria.s_lang[n] = "all" \/ Base(criteria.s_lang[n]) = Base(x.language)}

\* C25: for a movie, the subtitles kept are those that passed the language
\* filter and are either not forced or forced in a language close to the
\* requested audio languages; a range with "all" lets every language pass.
C25_SubtitleFilters ==
    (JustSelected /\ title.kind = "Movie") =>
        /\ \A x \in PassedSubtitleLanguage : ~x.forced => x \in Members(title.tracks.subtitles)
        /\ \A x \in Members(title.tracks.subtitles) :
              /\ x \in PassedSubtitleLanguage
              /\ x.forced => \E n \in 1..Len(criteria.lang) : Base(criteria.lang[n]) = Base(x.language)
        /\ InSeq("all", criteria.s_lang) =>
              \A x \in Members(selected.before.subtitles) : ~x.forced => x \in Members(title.tracks.subtitles)

\* "all" subtitles requested: the forced French one went, the other stayed
C25_Witness ==
    /\ JustSelected /\ title.kind = "Movie"
    /\ InSeq("all", criteria.s_lang) /\ criteria.lang = <<"en", "en-US">>
    /\ Members(selected.before.subtitles) = {SEn, SFrForced}
    /\ title.tracks.subtitles = <<SEn>>

\* The units that were submitted for the track of unit i.
SubmittedFor(i) ==
    {j \in DOMAIN pool.units : /\ pool.units[j].track = pool.units[i].track
                               /\ pool.units[j].state /= "unsubmitted"}

\* C26: during a title's download at most `downloads` units run at the same
\* time, and once the submissions are over every selected track has been
\* submitted exactly once.
C26_BoundedOncePerTrack ==
    /\ Cardinality(Running) <= pool.downloads
    /\ main.pc = "wait" =>
          \A i \in DOMAIN pool.units : Cardinality(SubmittedFor(i)) = 1

\* The place of unit i in the completion order.
Pos(i) == CHOOSE n \in 1..Len(pool.completed) : pool.completed[n] = i

\* The failed units, and the one that failed first.
Failed == States("raised")
FirstFailed == CHOOSE i \in Failed : \A j \in Failed : Pos(i) <= Pos(j)

\* C27 as stated: when the run has returned without an interrupt and a unit
\* raised, the outcome is the failure; the failure carries the exception of
\* the unit that failed first in completion order; post-processing is reached
\* only when every unit returned.
C27_FirstFailureReported_Original ==
    main.pc = "returned" =>
        /\ (~main.interrupted /\ Failed /= {}) => main.outcome = "Download Failed"
        /\ main.outcome = "Download Failed" =>
              /\ Failed /= {}
              /\ main.exc.unit = FirstFailed
        /\ main.outcome = "post-processing" =>
              \A i \in DOMAIN pool.units : pool.units[i].state = "returned"

\* C27: when the run has returned without an interrupt and a unit raised, the
\* outcome is the failure; the failure carries the exception of a failed unit,
\* and a unit that failed before it in completion order had, like it, already
\* finished when as_completed began; post-processing is reached only when
\* every unit returned.
C27_FirstFailureReported ==
    main.pc = "returned" =>
        /\ (~main.interrupted /\ Failed /= {}) => main.outcome = "Download Failed"
        /\ main.outcome = "Download Failed" =>
              /\ main.exc.unit \in Failed
              /\ \A j \in Failed :
                    Pos(j) < Pos(main.exc.unit) => {j, main.exc.unit} \subseteq main.finished
        /\ main.outcome = "post-processing" =>
              \A i \in DOMAIN pool.units : pool.units[i].state = "returned"

\* Two units failed, the wait began before the first of them had finished, and
\* the failure reported is the first one's.
C27_Witness ==
    /\ main.pc = "returned"
    /\ main.outcome = "Download Failed"
    /\ Cardinality(Failed) = 2
    /\ main.exc.unit = FirstFailed
    /\ main.exc.unit \notin main.finished

\* C28: a unit is never cancelled: it is unsubmitted, queued, running, or has
\* ended the way it would have ended alone; and when the failure is reported
\* every unit that was running when it was observed has ended its own way.
C28_SiblingsRunOn ==
    /\ \A i \in DOMAIN pool.units :
          pool.units[i].state \in {"unsubmitted", "queued", "running", pool.units[i].fate}
    /\ (main.pc = "returned" /\ ~main.interrupted /\ main.exc.kind = "Exception") =>
          \A i \in main.inflight : pool.units[i].state = pool.units[i].fate

\* The failure is reported, and of the two units running when it was observed
\* one has returned and one has raised.
C28_Witness ==
    /\ main.pc = "returned"
    /\ main.outcome = "Download Failed"
    /\ \E i, j \in main.inflight : /\ pool.units[i].state = "returned"
                                   /\ pool.units[j].state = "raised"

\* C29: a run that was interrupted ends with the cancelled outcome, and only
\* an interrupted run does: the failure is not reported and post-processing is
\* not reached.
C29_InterruptIsCancelled ==
    main.pc = "returned" =>
        (main.interrupted <=> main.outcome = "Download Cancelled")

\* The run was interrupted while it waited, after a unit had raised and before
\* the loop had seen it.
C29_Witness ==
    /\ main.pc = "returned"
    /\ main.interrupted
    /\ main.outcome = "Download Cancelled"
    /\ Failed /= {}
    /\ Failed \cap main.seen = {}
    /\ main.finished /= {}

\* Two of the [[drm.vaults]] tables that were given share type and name.
DuplicateBackends ==
    \E m, n \in 1..Len(config.given) : m /= n /\ config.given[m] = config.given[n]

\* C30: the configuration is not built, and no pool is constructed, from
\* tables of which two share an identity.
C30_DuplicateVaultsRaise ==
    config.pc \in {"built", "pool"} => ~DuplicateBackends

\* The positions of a trace that hold an event of one of the given types.
EventsIn(t, types) == {n \in 1..Len(t) : t[n].type \in types}

\* C33: the step in which the exchange raises appends one error event, the
\* only one of the call, with the exception's own message for EmptyLicense and
\* CEKNotFound and the wrapper otherwise; the exception leaves the call, which
\* has made no bulk write, and neither the pool nor the export file changes.
C33_ExchangeErrorOnce ==
    [][(pc = "exchange" /\ pc' = "idle") =>
          /\ outcome' \in ExchangeErrors
          /\ EventsIn(trace', {"error"}) = {Len(trace')}
          /\ trace'[Len(trace')].src =
                (IF outcome' \in {"EmptyLicense", "CEKNotFound"}
                 THEN "str(e)" ELSE "An exception occurred")
          /\ EventsIn(trace', {"add_keys", "bulk_write"}) = {}
          /\ vaults' = vaults
          /\ keys_file' = keys_file]_vars

\* The exchange raised EmptyLicense after a key of the same call had come
\* from the pool, with an export sink configured.
C33_Witness ==
    /\ pc = "idle" /\ outcome = "EmptyLicense"
    /\ export
    /\ EventsIn(trace, {"key_found"}) /= {}
    /\ trace[Len(trace)].type = "error"
    /\ trace[Len(trace)].src = "str(e)"

\* C34: no step of prepare_drm_keys puts an all-zero key into a backend: a
\* backend's entry changes only to a real key, and every write event of the
\* call carries a real key.
C34_NoSentinelWritten ==
    [][/\ \A j \in 1..Len(vaults) : \A k \in KIDs :
             vaults'[j].store[k] /= vaults[j].store[k] => RealKey(vaults'[j].store[k])
       /\ \A n \in EventsIn(trace', {"write"}) : RealKey(trace'[n].key)]_vars

\* A key found in one backend was written to the other; the device then
\* returned an all-zero key and the bulk write was called.
C34_Witness ==
    /\ \E n \in EventsIn(trace, {"write"}) : trace[n].flag
    /\ EventsIn(trace, {"add_keys"}) /= {}
    /\ \E k \in DOMAIN content_keys : content_keys[k] = ZeroKey

\* C35: every key-found event carries the primary flag exactly when its
\* key-id is the caller's track_kid.
C35_PrimaryFlag ==
    \A n \in EventsIn(trace, {"key_found"}) : trace[n].flag <=> (trace[n].kid = track_kid)

\* Every kid of the descriptor is in its key map.
AllResolved == \A n \in 1..Len(kids) : kids[n] \in DOMAIN content_keys

\* C36 as stated: a call that finds every kid of the descriptor in the key map
\* goes on without a lookup, an exchange or a write, leaves the key map as it
\* is and emits nothing after the PSSH announcement.
C36_ResolvedIsSkipped_Original ==
    [][(pc \in {"loop", "after_loop"} /\ AllResolved
           /\ trace = <<Event("pssh", NoKid, None, "Widevine", TRUE)>>) =>
          /\ vaults' = vaults
          /\ content_keys' = content_keys
          /\ trace' = trace]_vars

\* C36: a call that finds every kid of the descriptor in the key map goes on
\* without a lookup, an exchange or a write, leaves the key map as it is and
\* emits nothing after the PSSH announcement, except the error notification
\* with which it raises CEKNotFound when track_kid is not in the key map.
C36_ResolvedIsSkipped ==
    [][(pc \in {"loop", "after_loop"} /\ AllResolved
           /\ trace = <<Event("pssh", NoKid, None, "Widevine", TRUE)>>) =>
          /\ vaults' = vaults
          /\ content_keys' = content_keys
          /\ \/ trace' = trace
             \/ /\ track_kid /= NoKid /\ track_kid \notin DOMAIN content_keys
                /\ trace' = Append(trace, Event("error", track_kid, None, "No Content Key", TRUE))
                /\ outcome' = "CEKNotFound"]_vars

\* The second call on a descriptor of two kids, both resolved by the first,
\* returned after the PSSH announcement alone.
C36_Witness ==
    /\ ncalls = 2 /\ pc = "idle" /\ outcome = "return drm"
    /\ Len(kids) = 2 /\ AllResolved
    /\ trace = <<Event("pssh", NoKid, None, "Widevine", TRUE)>>

\* C37: cdm_only and vaults_only are never both set, so a kid the loop finds
\* unresolved is looked up in the pool or handed to the device.
C37_ModesExclusive ==
    /\ ~(cdm_only /\ vaults_only)
    /\ (pc = "loop" /\ idx <= Len(kids) /\ kids[idx] \notin DOMAIN content_keys) =>
          (~cdm_only \/ ~vaults_only)

\* --vaults-only: the loop is at the second kid, unresolved, and only the
\* pool may be consulted.
C37_Witness ==
    /\ vaults_only /\ ~cdm_only
    /\ pc = "loop" /\ idx = 2 /\ Len(kids) = 2
    /\ kids[idx] \notin DOMAIN content_keys

\* The trees created for a PSSH, and the rows of the table that show them.
TreesOf(p) == {t \in 1..Len(ui.trees) : ui.trees[t].pssh = p}
RowsOf(p) == {n \in 1..Len(ui.rows) : ui.rows[n] \in TreesOf(p)}

\* C31: every notification a call has made is a label of the tree of the PSSH
\* that call announced, and no tree holds a label of a call that announced
\* another PSSH.
C31_KeyedByDescriptor ==
    /\ \A l \in ui.emitted :
          /\ l.by \in DOMAIN ui.drm_trees
          /\ \E x \in ui.trees[ui.drm_trees[l.by]].labels :
                x.kind = l.kind /\ x.kid = l.kid /\ x.by = l.by
    /\ \A t \in 1..Len(ui.trees) : \A x \in ui.trees[t].labels : x.by = ui.trees[t].pssh

\* C32: a PSSH that a call has announced has exactly one tree and exactly one
\* row of the table, however many calls announced it; one that no call has
\* announced yet has at most one.
C32_OneTreePerHeader ==
    \A p \in PSSHs :
        /\ Cardinality(TreesOf(p)) <= 1
        /\ Cardinality(RowsOf(p)) <= 1
        /\ (\E c \in Callers : callers[c].pssh = p /\ callers[c].pc \in {"notify", "done"}) =>
              (Cardinality(TreesOf(p)) = 1 /\ Cardinality(RowsOf(p)) = 1)

\* The entries of the run's log that report a failed or cancelled download.
Ended == {n \in 1..Len(run.log) : run.log[n].what \in {"Download Failed", "Download Cancelled"}}

\* C38: the report of a failed or cancelled download is the last thing the
\* run does: the run has returned, nothing is logged after the report, no
\* later title was downloaded, listed or post-processed, and the cookies were
\* not saved for the title.
C38_FailureEndsRun ==
    \A n \in Ended :
        /\ run.pc = "returned"
        /\ n = Len(run.log)
        /\ \A m \in 1..Len(run.log) :
              /\ run.log[m].title <= run.log[n].title
              /\ run.log[m].title = run.log[n].title =>
                    run.log[m].what \notin {"save_cookies", "moved", "Processed all titles"}

\* The second of three wanted titles failed after the first had been
\* downloaded, moved and followed by the cookie save.
C38_Witness ==
    /\ Len(run.titles) = 3
    /\ run.titles[3].wanted
    /\ run.pc = "returned"
    /\ \E n \in Ended : run.log[n] = Did(2, "Download Failed")
    /\ \E m \in 1..Len(run.log) : run.log[m] = Did(1, "save_cookies")
    /\ \E m \in 1..Len(run.log) : run.log[m] = Did(1, "moved")

====
